---- MODULE Spec2Model ----
(***************************************************************************)
(* Product catalog backend (products/models.py, repositories.py,           *)
(* services.py): the store of products and discounts, the repository       *)
(* queries over it, and the service layer's validation, stock and discount *)
(* price logic.                                                            *)
(*                                                                         *)
(* Money and percentages are Python Decimals.  A Decimal is modelled as a  *)
(* record [c, e]: the integer coefficient c and the number e of fractional *)
(* digits, i.e. the value c / 10^e.  A price of 100.00 is [c |-> 10000,    *)
(* e |-> 2].  Python values of other types are tagged records [t, ...].    *)
(* Every action leaves in `result` what the call returned or raised.       *)
(***************************************************************************)
EXTENDS Integers, Sequences, FiniteSets, TLC

VARIABLES products, discounts, categories, images, reviews, listing,
          lastId, result, calls

vars == <<products, discounts, categories, images, reviews, listing,
          lastId, result, calls>>

----------------------------------------------------------------------------
(* Bounds *)

MaxDiscounts == 2
MaxProducts == 2
MaxReviews == 2
MaxImages == 1
MaxCategories == 2
MaxChildren == 1
MaxRows == 4

\* The instants of the model: a query at 1 has instants before and after it.
Times == {0, 1, 2}

----------------------------------------------------------------------------
(* Python Decimal arithmetic (decimal module, default context: the          *)
(* coefficients that arise here have at most 15 digits, below the context's  *)
(* precision of 28, so no operation rounds).                                 *)

RECURSIVE Pow10(_)
Pow10(n) == IF n = 0 THEN 1 ELSE 10 * Pow10(n - 1)

Dec(c, e) == [c |-> c, e |-> e]

Max2(a, b) == IF a >= b THEN a ELSE b

\* Decimal.__truediv__ by the int 100 (exponent 0).  The quotient is exact;
\* its exponent is brought as close to the ideal exponent (that of the
\* dividend) as exactness allows: 20.00 / 100 = 0.20, 33.33 / 100 = 0.3333.
RECURSIVE DecReduce(_, _, _)
DecReduce(c, e, ideal) ==
    IF e > ideal /\ c % 10 = 0 THEN DecReduce(c \div 10, e - 1, ideal)
    ELSE Dec(c, e)

DecDiv100(d) == DecReduce(d.c, d.e + 2, d.e)

\* Decimal.__mul__: coefficients multiply, exponents add.
DecMul(a, b) == Dec(a.c * b.c, a.e + b.e)

\* Decimal.__sub__: operands are aligned to the smaller exponent.
DecSub(a, b) ==
    LET e == Max2(a.e, b.e)
    IN  Dec(a.c * Pow10(e - a.e) - b.c * Pow10(e - b.e), e)

\* The value of d in units of 10^-k (k >= d.e).
DecScaled(d, k) == d.c * Pow10(k - d.e)

Digits == {"0", "1", "2", "3", "4", "5", "6", "7", "8", "9"}

DigitValue(ch) ==
    CASE ch = "0" -> 0 [] ch = "1" -> 1 [] ch = "2" -> 2 [] ch = "3" -> 3
      [] ch = "4" -> 4 [] ch = "5" -> 5 [] ch = "6" -> 6 [] ch = "7" -> 7
      [] ch = "8" -> 8 [] ch = "9" -> 9

RECURSIVE DigitsValue(_, _)
DigitsValue(s, acc) ==
    IF s = <<>> THEN acc
    ELSE DigitsValue(Tail(s), 10 * acc + DigitValue(Head(s)))

DigitChars == <<"0", "1", "2", "3", "4", "5", "6", "7", "8", "9">>

\* The decimal digits of n >= 0, most significant first.
RECURSIVE DigitsOf(_)
DigitsOf(n) ==
    IF n < 10 THEN <<DigitChars[n + 1]>>
    ELSE Append(DigitsOf(n \div 10), DigitChars[(n % 10) + 1])

RECURSIVE ZeroPad(_, _)
ZeroPad(s, n) == IF Len(s) >= n THEN s ELSE ZeroPad(<<"0">> \o s, n)

\* str(Decimal) for the exponents 0 .. -6 with at least one integer digit
\* written: sign, integer digits, and after a point the e fractional digits.
DecimalStr(d) ==
    LET mag == IF d.c < 0 THEN 0 - d.c ELSE d.c
        ds == ZeroPad(DigitsOf(mag), d.e + 1)
        int == SubSeq(ds, 1, Len(ds) - d.e)
        frac == SubSeq(ds, Len(ds) - d.e + 1, Len(ds))
    IN  (IF d.c < 0 THEN <<"-">> ELSE <<>>)
        \o int \o (IF d.e > 0 THEN <<".">> \o frac ELSE <<>>)

\* Decimal(text) for such a text: the digits are the coefficient, the digits
\* after the point count the exponent.
DecimalOfStr(s) ==
    LET neg == s # <<>> /\ Head(s) = "-"
        body == IF neg THEN Tail(s) ELSE s
        dots == {i \in 1..Len(body) : body[i] = "."}
        e == IF dots = {} THEN 0
             ELSE Len(body) - (CHOOSE i \in dots : TRUE)
        mag == DigitsValue(SelectSeq(body, LAMBDA ch : ch # "."), 0)
    IN  Dec(IF neg THEN 0 - mag ELSE mag, e)

----------------------------------------------------------------------------
(* ProductDiscountRepository *)

\* A filter that forgets the end of the window.
IsActiveAtNoEnd(d, T) ==
    d.is_active /\ d.start_date <= T

\* A filter with an exclusive start bound.
IsActiveAtExclusive(d, T) ==
    d.is_active /\ d.start_date < T /\ d.end_date >= T

\* The filter of get_active_discount_for_product / get_all_active_discounts.
IsActiveAt(d, T) ==
    d.is_active /\ d.start_date <= T /\ d.end_date >= T

ActiveDiscounts(ds, product_id, T) ==
    {d \in ds : d.product_id = product_id /\ IsActiveAt(d, T)}

\* An ordering by the primary key instead: the oldest row comes first.
FirstById(rows) ==
    {d \in rows : \A o \in rows : d.id <= o.id}

\* .order_by('-start_date').first(): the rows that may come first.  Rows
\* with equal start_date are ordered by the database as it pleases.
FirstByStartDateDesc(rows) ==
    {d \in rows : \A o \in rows : o.start_date <= d.start_date}

\* What get_active_discount_for_product may return: {} stands for None, {d}
\* for the row d.
ActiveDiscountResults(ds, product_id, T) ==
    LET rows == ActiveDiscounts(ds, product_id, T)
    IN  IF rows = {} THEN {{}}
        ELSE {{d} : d \in FirstByStartDateDesc(rows)}

\* ProductDiscountRepository.get_active_discount_for_product(product_id,
\* current_date).
GetActiveDiscountForProduct(product_id, current_date) ==
    /\ \E r \in ActiveDiscountResults(discounts, product_id, current_date) :
          result' = [op |-> "get_active_discount_for_product",
                     product_id |-> product_id,
                     current_date |-> current_date,
                     raised |-> "none",
                     value |-> r]
    /\ UNCHANGED <<products, discounts, categories, images, reviews, listing, calls,
                 lastId>>

\* ProductDiscountRepository.create(**kwargs): ProductDiscount.objects.create.
\* A row whose product does not exist violates the foreign key; the error is
\* re-raised as ValueError and nothing is stored.
DiscountCreate(product_id, pct, start_date, end_date, is_active) ==
    /\ lastId.discount < MaxDiscounts
    /\ IF product_id \in DOMAIN products
       THEN LET d == [id |-> lastId.discount + 1,
                      product_id |-> product_id,
                      discount_percentage |-> pct,
                      start_date |-> start_date,
                      end_date |-> end_date,
                      is_active |-> is_active]
            IN  /\ discounts' = discounts \cup {d}
                /\ lastId' = [lastId EXCEPT !.discount = @ + 1]
                /\ result' = [op |-> "discount_create", raised |-> "none",
                              value |-> {d}]
       ELSE /\ UNCHANGED <<discounts, lastId>>
            /\ result' = [op |-> "discount_create", raised |-> "ValueError",
                          value |-> {}]
    /\ UNCHANGED <<products, categories, images, reviews, listing, calls>>

----------------------------------------------------------------------------
(* ProductRepository *)

NotFoundMessage(entity, id) == <<entity, "with id", id, "not found">>

\* ProductRepository.get_by_id: the row, or ValueError("Product with id <id>
\* not found").
ProductGetById(ps, product_id) ==
    IF product_id \in DOMAIN ps
    THEN [raised |-> "none", value |-> {ps[product_id]},
          message |-> <<>>]
    ELSE [raised |-> "ValueError", value |-> {},
          message |-> NotFoundMessage("Product", product_id)]

----------------------------------------------------------------------------
(* ProductService: discount price *)

\* A calculation that takes the percentage for a fraction (no / 100).
CalculateDiscountedPriceNoDiv(product, discount) ==
    IF discount = {} THEN product.price
    ELSE LET d == CHOOSE x \in discount : TRUE
         IN  DecSub(product.price,
                    DecMul(product.price, d.discount_percentage))

\* ProductService._calculate_discounted_price(product, discount); discount is
\* {} for None or {d}.
CalculateDiscountedPrice(product, discount) ==
    IF discount = {} THEN product.price
    ELSE LET d == CHOOSE x \in discount : TRUE
             discount_percentage ==
                 DecimalOfStr(DecimalStr(d.discount_percentage))
             discount_amount == DecMul(product.price,
                                       DecDiv100(discount_percentage))
         IN  DecSub(product.price, discount_amount)

\* An enrichment that reports a discount whenever the product has any row.
GetProductWithDiscountPriceAnyRow(product_id, now) ==
    /\ product_id \in DOMAIN products
    /\ \E active_discount \in
            ActiveDiscountResults(discounts, product_id, now) :
          result' =
            [op |-> "get_product_with_discount_price",
             product_id |-> product_id, now |-> now,
             raised |-> "none", message |-> <<>>,
             active_discount |-> active_discount,
             price |-> products[product_id].price,
             discounted_price |->
                CalculateDiscountedPrice(products[product_id], active_discount),
             has_active_discount |->
                (\E d \in discounts : d.product_id = product_id),
             discount_percentage |->
                IF active_discount # {}
                THEN (CHOOSE x \in active_discount : TRUE).discount_percentage
                ELSE Dec(0, 0)]
    /\ UNCHANGED <<products, discounts, categories, images, reviews, listing, calls,
                 lastId>>

\* ProductService.get_product_with_discount_price(product_id,
\* discount_repository), with _get_active_discount_for_product inlined:
\* current_date is timezone.now(), here the instant `now` of the call.
GetProductWithDiscountPrice(product_id, now) ==
    /\ LET got == ProductGetById(products, product_id)
       IN  IF got.raised # "none"
           THEN result' = [op |-> "get_product_with_discount_price",
                           product_id |-> product_id, now |-> now,
                           raised |-> got.raised, message |-> got.message]
           ELSE \E active_discount \in
                      ActiveDiscountResults(discounts, product_id, now) :
                  LET product == CHOOSE x \in got.value : TRUE
                  IN  result' =
                        [op |-> "get_product_with_discount_price",
                         product_id |-> product_id, now |-> now,
                         raised |-> "none", message |-> <<>>,
                         active_discount |-> active_discount,
                         price |-> product.price,
                         discounted_price |->
                            CalculateDiscountedPrice(product, active_discount),
                         has_active_discount |-> active_discount # {},
                         discount_percentage |->
                            IF active_discount # {}
                            THEN (CHOOSE x \in active_discount : TRUE)
                                     .discount_percentage
                            ELSE Dec(0, 0)]
    /\ UNCHANGED <<products, discounts, categories, images, reviews, listing, calls,
                 lastId>>

----------------------------------------------------------------------------
(* The discount specification: a catalog of two products, discounts being   *)
(* created and looked up.                                                    *)

\* The windows of the rows created.  A row with end_date < start_date is
\* active at no instant and behaves as an is_active = FALSE row; it is left
\* out.  The filter is a conjunction, so a row that fails both the flag and
\* the window shows nothing that the rows failing one of them do not: the
\* is_active = FALSE rows get the windows that put them in reach of a query.
Windows(is_active) ==
    IF is_active THEN {w \in Times \X Times : w[1] <= w[2]}
    ELSE {<<0, 2>>, <<1, 2>>}

Percentages == {Dec(2000, 2), Dec(4000, 2)}

\* No listing request is in flight.
Idle == [pc |-> "idle"]

\* The category the tests' setUp creates; no parent.
FixtureCategories ==
    (1 :> [id |-> 1, name |-> <<"a">>, parent_id |-> {}])

FixtureProducts ==
    (1 :> [id |-> 1, name |-> <<"a">>, description |-> <<>>,
           price |-> Dec(10000, 2), category_id |-> 1,
           stock_quantity |-> 10, sku |-> "SKU1", is_active |-> TRUE]) @@
    (2 :> [id |-> 2, name |-> <<"b">>, description |-> <<>>,
           price |-> Dec(9999, 2), category_id |-> 1,
           stock_quantity |-> 5, sku |-> "SKU2", is_active |-> TRUE])

\* An id no create has handed out (the tests ask for 999).
MissingProductId == MaxProducts + 1

DiscountInit ==
    /\ products = FixtureProducts
    /\ discounts = {}
    /\ categories = FixtureCategories
    /\ images = <<>>
    /\ reviews = <<>>
    /\ listing = Idle
    /\ calls = <<>>
    /\ lastId = [product |-> 2, discount |-> 0, category |-> 1,
                 review |-> 0, image |-> 0]
    /\ result = [op |-> "init", raised |-> "none"]

DiscountNext ==
    \/ \E p \in DOMAIN FixtureProducts \cup {MissingProductId},
          pct \in Percentages, a \in BOOLEAN :
          \E w \in Windows(a) : DiscountCreate(p, pct, w[1], w[2], a)
    \/ \E p \in DOMAIN FixtureProducts, T \in Times :
          GetActiveDiscountForProduct(p, T)
    \/ \E p \in DOMAIN FixtureProducts \cup {MissingProductId}, T \in Times :
          GetProductWithDiscountPrice(p, T)

DiscountSpec == DiscountInit /\ [][DiscountNext]_vars

----------------------------------------------------------------------------
(* Claims on the discount engine (DiscountSpec) *)

\* The price a discount of pct percent gives, in units of 10^-6, computed in
\* the integers: P - P * pct / 100 for P in cents and pct in hundredths.
ExactDiscounted(price, pct) == price.c * 10000 - price.c * pct.c

\* C1: get_active_discount_for_product(p, T) returns None exactly when no
\* discount row of p has is_active, start_date <= T and end_date >= T, and a
\* returned discount is a stored row of p that satisfies this, both bounds
\* inclusive.
C1_ActiveIffPredicate ==
    result.op = "get_active_discount_for_product" =>
        LET p == result.product_id
            T == result.current_date
            Sat(d) == /\ d.product_id = p
                      /\ d.is_active = TRUE
                      /\ d.start_date <= T
                      /\ T <= d.end_date
        IN  /\ (result.value = {}) <=> ~(\E d \in discounts : Sat(d))
            /\ \A d \in result.value : d \in discounts /\ Sat(d)

\* A discount is returned whose window starts and ends at the query instant,
\* while the product has another row that has not started.
C1_Witness ==
    /\ result.op = "get_active_discount_for_product"
    /\ \E d \in result.value :
          /\ d.start_date = result.current_date
          /\ d.end_date = result.current_date
          /\ \E o \in discounts : /\ o.product_id = d.product_id
                                  /\ o.start_date > result.current_date

\* C2: with several discounts of p active at T, the returned one has the
\* maximum start_date among them.
C2_LatestStartWins ==
    result.op = "get_active_discount_for_product" =>
        \A d \in result.value :
            \A o \in discounts :
                (/\ o.product_id = result.product_id
                 /\ o.is_active
                 /\ o.start_date <= result.current_date
                 /\ o.end_date >= result.current_date)
                => o.start_date <= d.start_date

\* Two discounts of p are active; the later-started one is returned although
\* it was created first, ends first and has the smaller percentage.
C2_Witness ==
    /\ result.op = "get_active_discount_for_product"
    /\ \E d \in result.value : \E o \in discounts :
          /\ o.product_id = d.product_id
          /\ IsActiveAt(o, result.current_date)
          /\ o.start_date < d.start_date
          /\ o.id > d.id
          /\ o.end_date > d.end_date
          /\ o.discount_percentage.c > d.discount_percentage.c

\* C4: for an existing product, has_active_discount is true exactly when a
\* discount of the product is active now; with none, discounted_price = price
\* and discount_percentage = 0; with one, the percentage is the selected
\* discount's and the discounted price is computed from that discount.
C4_Enrichment ==
    (result.op = "get_product_with_discount_price" /\ result.raised = "none") =>
        LET p == result.product_id
            live == {d \in discounts : /\ d.product_id = p
                                       /\ d.is_active
                                       /\ d.start_date <= result.now
                                       /\ d.end_date >= result.now}
        IN  /\ result.price = products[p].price
            /\ result.has_active_discount <=> (live # {})
            /\ live = {} =>
                  /\ result.discounted_price = result.price
                  /\ result.discount_percentage.c = 0
            /\ live # {} =>
                  \E d \in live :
                     /\ result.active_discount = {d}
                     /\ result.discount_percentage = d.discount_percentage
                     /\ DecScaled(result.discounted_price, 6) =
                           ExactDiscounted(result.price, d.discount_percentage)

\* A product with an active discount is enriched, and so is (in another
\* state) one whose only rows are inactive.
C4_Witness ==
    /\ result.op = "get_product_with_discount_price"
    /\ result.raised = "none"
    /\ result.has_active_discount
    /\ result.discounted_price # result.price
    /\ \E o \in discounts : /\ o.product_id = result.product_id
                            /\ ~IsActiveAt(o, result.now)

\* C5: discounts that are not active at the query time never influence the
\* enriched price: it is the price itself when no discount is active, and
\* otherwise the price reduced by a discount that is active.  100.00 with an
\* active 20% and an expired 40% gives 80.00.
C5_InactiveNeverInfluences ==
    (result.op = "get_product_with_discount_price" /\ result.raised = "none") =>
        LET p == result.product_id
            live == {d \in discounts : /\ d.product_id = p
                                       /\ d.is_active
                                       /\ d.start_date <= result.now
                                       /\ d.end_date >= result.now}
        IN  /\ DecScaled(result.discounted_price, 6) \in
                  IF live = {} THEN {DecScaled(result.price, 6)}
                  ELSE {ExactDiscounted(result.price, d.discount_percentage) :
                           d \in live}
            /\ (/\ result.price = Dec(10000, 2)
                /\ \A d \in live : d.discount_percentage = Dec(2000, 2)
                /\ live # {})
               => DecScaled(result.discounted_price, 6) = 80000000

\* The scenario: price 100.00, an active 20% discount, and a 40% discount that
\* expired but started later than the active one; the result is 80.00.
C5_Witness ==
    /\ result.op = "get_product_with_discount_price"
    /\ result.raised = "none"
    /\ result.price = Dec(10000, 2)
    /\ DecScaled(result.discounted_price, 6) = 80000000
    /\ \E a \in discounts, x \in discounts :
          /\ a.product_id = result.product_id
          /\ x.product_id = result.product_id
          /\ IsActiveAt(a, result.now)
          /\ a.discount_percentage = Dec(2000, 2)
          /\ x.is_active
          /\ x.end_date < result.now
          /\ x.start_date > a.start_date
          /\ x.discount_percentage = Dec(4000, 2)

----------------------------------------------------------------------------
(* Python values reaching the service layer.  A text is a sequence of      *)
(* one-character strings.                                                  *)

PyNone == [t |-> "None"]
PyInt(n) == [t |-> "int", v |-> n]
PyStr(s) == [t |-> "str", v |-> s]
\* A float with one decimal: the value tenths / 10.
PyFloat(tenths) == [t |-> "float", v |-> tenths]
PyList == [t |-> "list"]

Whitespace == {" "}
\* str.lstrip() / str.rstrip() / str.strip()
RECURSIVE PyLStrip(_)
PyLStrip(s) ==
    IF s # <<>> /\ Head(s) \in Whitespace THEN PyLStrip(Tail(s)) ELSE s

RECURSIVE PyRStrip(_)
PyRStrip(s) ==
    IF s # <<>> /\ s[Len(s)] \in Whitespace
    THEN PyRStrip(SubSeq(s, 1, Len(s) - 1))
    ELSE s

\* A strip() that trims the left side only.
PyStripLeftOnly(s) == PyLStrip(s)

PyStrip(s) == PyRStrip(PyLStrip(s))

\* int(text): surrounding whitespace is dropped, then an optional sign and at
\* least one digit must make up the whole text; anything else is ValueError.
\* int(number) truncates toward zero.  int(None) and int(list) are TypeError.
PyIntOfStr(s) ==
    LET body == PyStrip(s)
        signed == body # <<>> /\ Head(body) \in {"-", "+"}
        digits == IF signed THEN Tail(body) ELSE body
    IN  IF digits # <<>> /\ \A i \in 1..Len(digits) : digits[i] \in Digits
        THEN [raised |-> "none",
              v |-> IF signed /\ Head(body) = "-"
                    THEN 0 - DigitsValue(digits, 0)
                    ELSE DigitsValue(digits, 0)]
        ELSE [raised |-> "ValueError", v |-> 0]

PyIntConv(x) ==
    CASE x.t = "int" -> [raised |-> "none", v |-> x.v]
      [] x.t = "float" -> [raised |-> "none",
                           v |-> IF x.v >= 0 THEN x.v \div 10
                                 ELSE 0 - ((0 - x.v) \div 10)]
      [] x.t = "str" -> PyIntOfStr(x.v)
      [] OTHER -> [raised |-> "TypeError", v |-> 0]

----------------------------------------------------------------------------
(* Product model and repository writes *)

\* A clean() that checks the price alone.
ProductCleanPriceOnly(p) ==
    IF p.price.c < 0 THEN <<"Price cannot be negative">> ELSE <<>>

\* Product.clean(): the message of the ValidationError it raises, or <<>>.
ProductClean(p) ==
    IF p.price.c < 0 THEN <<"Price cannot be negative">>
    ELSE IF p.stock_quantity < 0 THEN <<"Stock quantity cannot be negative">>
    ELSE <<>>

\* A keyword argument of a create, or the field's default when it is absent.
Kw(kwargs, f, default) == IF f \in DOMAIN kwargs THEN kwargs[f] ELSE default

\* The id an INSERT gives the row: the id among the keyword arguments, or the
\* next value of the table's AUTOINCREMENT sequence, which never hands out an
\* id again.
InsertId(kwargs, last) == IF "id" \in DOMAIN kwargs THEN kwargs.id ELSE last + 1

\* Product(**kwargs): the instance before it is saved.  name, description and
\* sku default to the empty string, is_active to True.
ProductInstance(id, kwargs) ==
    [id |-> id,
     name |-> Kw(kwargs, "name", <<>>),
     description |-> Kw(kwargs, "description", <<>>),
     price |-> kwargs.price,
     category_id |-> kwargs.category_id,
     stock_quantity |-> kwargs.stock_quantity,
     sku |-> Kw(kwargs, "sku", ""),
     is_active |-> Kw(kwargs, "is_active", TRUE)]

\* price, stock_quantity and category have no default: the instance holds
\* None for an absent one.  clean() compares price, then stock_quantity, with
\* 0, a TypeError on None; a None category fails NOT NULL at the INSERT.
ProductMissingField(kwargs) ==
    IF "price" \notin DOMAIN kwargs
       \/ (kwargs.price.c >= 0 /\ "stock_quantity" \notin DOMAIN kwargs)
    THEN <<"'<' not supported between instances of 'NoneType' and 'int'">>
    ELSE IF kwargs.price.c < 0 THEN <<"Price cannot be negative">>
    ELSE IF kwargs.stock_quantity < 0
    THEN <<"Stock quantity cannot be negative">>
    ELSE IF "category_id" \notin DOMAIN kwargs
    THEN <<"NOT NULL constraint failed: products_product.category_id">>
    ELSE <<>>

\* A save whose store has no unique constraint on sku.
ProductSaveErrorNoUnique(p, others, cats) ==
    IF ProductClean(p) # <<>> THEN ProductClean(p)
    ELSE IF p.category_id \notin DOMAIN cats
    THEN <<"FOREIGN KEY constraint failed">>
    ELSE <<>>

\* Product.save() of instance p over the other rows: the message of the
\* error it raises, or <<>>.  clean() runs first; the INSERT or UPDATE then
\* meets the store's constraints: sku unique, the category a row of the
\* categories table.
ProductSaveError(p, others, cats) ==
    IF ProductClean(p) # <<>> THEN ProductClean(p)
    ELSE IF \E o \in others : o.sku = p.sku
    THEN <<"UNIQUE constraint failed: products_product.sku">>
    ELSE IF p.category_id \notin DOMAIN cats
    THEN <<"FOREIGN KEY constraint failed">>
    ELSE <<>>

\* ProductRepository.create(**kwargs): Product.objects.create saves the row,
\* and Product.save() runs clean() first; any error becomes ValueError.
ProductCreate(kwargs) ==
    /\ InsertId(kwargs, lastId.product) <= MaxProducts
    /\ LET id == InsertId(kwargs, lastId.product)
           e == IF ProductMissingField(kwargs) # <<>>
                THEN ProductMissingField(kwargs)
                ELSE IF id \in DOMAIN products
                THEN <<"UNIQUE constraint failed: products_product.id">>
                ELSE ProductSaveError(
                         ProductInstance(id, kwargs),
                         {products[i] : i \in DOMAIN products}, categories)
       IN  IF e = <<>>
           THEN LET p == ProductInstance(id, kwargs)
                IN  /\ products' = (p.id :> p) @@ products
                    /\ lastId' = [lastId EXCEPT !.product = Max2(@, id)]
                    /\ result' = [op |-> "product_create", kwargs |-> kwargs,
                                  raised |-> "none", value |-> {p}]
           ELSE /\ UNCHANGED <<products, lastId>>
                /\ result' = [op |-> "product_create", kwargs |-> kwargs,
                              raised |-> "ValueError",
                              message |-> <<"Error creating product:">> \o e]
    /\ UNCHANGED <<discounts, categories, images, reviews, listing, calls>>

\* An update_stock that assigns the field and never saves.
ProductUpdateStockNoSave(ps, product_id, new_stock) ==
    IF product_id \notin DOMAIN ps
    THEN [raised |-> "ValueError",
          message |-> NotFoundMessage("Product", product_id), products |-> ps]
    ELSE [raised |-> "none", message |-> <<>>, products |-> ps]

\* An update_stock whose failed save leaves the assigned field in the store.
ProductUpdateStockDirty(ps, product_id, new_stock) ==
    IF product_id \notin DOMAIN ps
    THEN [raised |-> "ValueError",
          message |-> NotFoundMessage("Product", product_id), products |-> ps]
    ELSE LET product == [ps[product_id] EXCEPT !.stock_quantity = new_stock]
         IN  [raised |-> IF ProductClean(product) = <<>> THEN "none"
                         ELSE "ValueError",
              message |-> IF ProductClean(product) = <<>> THEN <<>>
                          ELSE <<"Error updating product", product_id>>
                                 \o ProductClean(product),
              products |-> [ps EXCEPT ![product_id] = product]]

\* ProductRepository.update_stock(product_id, new_stock): the outcome and the
\* store after it.
ProductUpdateStock(ps, product_id, new_stock) ==
    IF product_id \notin DOMAIN ps
    THEN [raised |-> "ValueError",
          message |-> NotFoundMessage("Product", product_id), products |-> ps]
    ELSE LET product == [ps[product_id] EXCEPT !.stock_quantity = new_stock]
         IN  IF ProductClean(product) = <<>>
             THEN [raised |-> "none", message |-> <<>>,
                   products |-> [ps EXCEPT ![product_id] = product]]
             ELSE [raised |-> "ValueError",
                   message |-> <<"Error updating product", product_id>>
                                 \o ProductClean(product),
                   products |-> ps]

\* ProductRepository.update_stock as a call of its own.
ProductRepositoryUpdateStock(product_id, new_stock) ==
    LET out == ProductUpdateStock(products, product_id, new_stock)
    IN  /\ products' = out.products
        /\ result' = [op |-> "product_update_stock", id |-> product_id,
                      new_stock |-> new_stock, raised |-> out.raised,
                      message |-> out.message]
        /\ UNCHANGED <<discounts, categories, images, reviews, listing, calls,
                       lastId>>

\* ProductRepository.get_low_stock(threshold): the ids of the rows selected.
ProductGetLowStock(ps, threshold) ==
    {id \in DOMAIN ps : ps[id].stock_quantity <= threshold}

----------------------------------------------------------------------------
(* ProductService: stock *)

DefaultThreshold == 10

\* ProductService.update_product_stock(product_id, new_stock)
UpdateProductStock(product_id, new_stock) ==
    LET conv == PyIntConv(new_stock)
        Return(payload, called) ==
            result' = [op |-> "update_product_stock",
                       product_id |-> product_id, new_stock |-> new_stock,
                       raised |-> "none", payload |-> payload,
                       repo_called |-> called]
    IN  /\ UNCHANGED <<discounts, categories, images, reviews, listing, calls,
                       lastId>>
        /\ IF new_stock.t = "None"
           THEN /\ Return([error |-> <<"stock_quantity is required">>], FALSE)
                /\ UNCHANGED products
           ELSE IF conv.raised = "ValueError"
           THEN /\ Return([error |-> <<"stock_quantity must be a number">>],
                          FALSE)
                /\ UNCHANGED products
           ELSE IF conv.raised # "none"
           THEN /\ result' = [op |-> "update_product_stock",
                              product_id |-> product_id,
                              new_stock |-> new_stock,
                              raised |-> conv.raised, repo_called |-> FALSE]
                /\ UNCHANGED products
           ELSE IF conv.v < 0
           THEN /\ Return([error |-> <<"stock_quantity cannot be negative">>],
                          FALSE)
                /\ UNCHANGED products
           ELSE LET out == ProductUpdateStock(products, product_id, conv.v)
                IN  /\ products' = out.products
                    /\ IF out.raised = "none"
                       THEN Return([message |-> <<"Stock updated successfully">>,
                                    new_stock |-> conv.v], TRUE)
                       ELSE Return([error |-> out.message], TRUE)

\* ProductService.get_low_stock_products(threshold)
GetLowStockProducts(threshold) ==
    LET conv == PyIntConv(threshold)
    IN  /\ UNCHANGED <<products, discounts, categories, images, reviews, listing, calls,
                 lastId>>
        /\ IF conv.raised \notin {"none", "ValueError"}
           THEN result' = [op |-> "get_low_stock_products",
                           threshold |-> threshold, raised |-> conv.raised]
           ELSE LET t == IF conv.raised = "ValueError" THEN DefaultThreshold
                         ELSE conv.v
                IN  result' = [op |-> "get_low_stock_products",
                               threshold |-> threshold, raised |-> "none",
                               value |-> ProductGetLowStock(products, t)]

----------------------------------------------------------------------------
(* The catalog specification: products are created, their stock is set and *)
(* listed.                                                                 *)

\* What a caller may send as stock_quantity or threshold: nothing, numbers,
\* texts ("7", " 7 ", "-7", "", "x", "7x", "7.5") and a JSON list.
NumberTexts ==
    {<<"7">>, <<" ", "7", " ">>, <<"-", "7">>, <<>>, <<"x">>, <<"7", "x">>,
     <<"7", ".", "5">>}

StockInputs ==
    {PyNone, PyList} \cup {PyInt(n) : n \in {0 - 3, 0, 5}}
    \cup {PyFloat(f) : f \in {0 - 5, 55}} \cup {PyStr(s) : s \in NumberTexts}

ThresholdInputs == StockInputs \cup {PyInt(10), PyInt(11)}

CreateStocks == {0 - 1, 10, 11}
CreatePrices == {Dec(0 - 1, 2), Dec(1000, 2)}
CreateSkus == {"SKU1", "SKU2"}

Init ==
    /\ products = <<>>
    /\ discounts = {}
    /\ categories = FixtureCategories
    /\ images = <<>>
    /\ reviews = <<>>
    /\ listing = Idle
    /\ calls = <<>>
    /\ lastId = [product |-> 0, discount |-> 0, category |-> 1,
                 review |-> 0, image |-> 0]
    /\ result = [op |-> "init", raised |-> "none"]


\* The products created: every price, stock and sku, in the fixture's category.
CreateProducts ==
    {[name |-> <<"a">>, price |-> price, category_id |-> 1,
      stock_quantity |-> stock, sku |-> sku] :
        price \in CreatePrices, stock \in CreateStocks, sku \in CreateSkus}

Next ==
    \/ \E kwargs \in CreateProducts : ProductCreate(kwargs)
    \/ \E id \in 1..MaxProducts \cup {MissingProductId}, x \in StockInputs :
          UpdateProductStock(id, x)
    \/ \E x \in ThresholdInputs : GetLowStockProducts(x)

Spec == Init /\ [][Next]_vars

----------------------------------------------------------------------------
(* Claims on the stock operations (Spec) *)

\* C6: update_product_stock(id, value) returns, without raising and without
\* calling the repository, the error 'stock_quantity is required' for None,
\* 'stock_quantity must be a number' for a value that does not convert to an
\* integer, and 'stock_quantity cannot be negative' for a negative one.
C6_StockInputErrors ==
    result.op = "update_product_stock" =>
        LET x == result.new_stock
            conv == PyIntConv(x)
            Rejected(text) == /\ result.raised = "none"
                              /\ result.payload = [error |-> <<text>>]
                              /\ ~result.repo_called
        IN  /\ x.t = "None" => Rejected("stock_quantity is required")
            /\ (x.t # "None" /\ conv.raised # "none")
                  => Rejected("stock_quantity must be a number")
            /\ (x.t # "None" /\ conv.raised = "none" /\ conv.v < 0)
                  => Rejected("stock_quantity cannot be negative")

\* C7: for a value that converts to an integer v >= 0, update_product_stock
\* does not raise; for an existing product it stores stock_quantity = v and
\* returns the success payload with new_stock = v, for a missing one it
\* returns the repository's not-found message as an error payload and the
\* store is unchanged.
C7_ValidStockUpdate ==
    [][ (/\ result'.op = "update_product_stock"
         /\ PyIntConv(result'.new_stock).raised = "none"
         /\ PyIntConv(result'.new_stock).v >= 0)
        => LET v == PyIntConv(result'.new_stock).v
               id == result'.product_id
           IN  /\ result'.raised = "none"
               /\ IF id \in DOMAIN products
                  THEN /\ result'.payload =
                             [message |-> <<"Stock updated successfully">>,
                              new_stock |-> v]
                       /\ DOMAIN products' = DOMAIN products
                       /\ products'[id].stock_quantity = v
                       /\ products'[id].price = products[id].price
                       /\ \A o \in DOMAIN products \ {id} :
                             products'[o] = products[o]
                  ELSE /\ result'.payload =
                             [error |-> <<"Product", "with id", id, "not found">>]
                       /\ products' = products
       ]_vars

\* A stock update of an existing product succeeded with a value no create
\* supplies, and the store holds it.
C7_Witness ==
    /\ result.op = "update_product_stock"
    /\ result.raised = "none"
    /\ "message" \in DOMAIN result.payload
    /\ result.payload.new_stock = 7
    /\ result.product_id \in DOMAIN products
    /\ products[result.product_id].stock_quantity = 7

\* C10: get_low_stock_products(threshold) never fails: a threshold that does
\* not convert to an integer (a non-numeric text, None) is replaced by 10, and
\* the products returned are exactly those with stock_quantity <= threshold.
C10_LowStockThreshold ==
    result.op = "get_low_stock_products" =>
        LET conv == PyIntConv(result.threshold)
            t == IF conv.raised = "none" THEN conv.v ELSE 10
        IN  /\ result.raised = "none"
            /\ result.value =
                  {id \in DOMAIN products : products[id].stock_quantity <= t}

----------------------------------------------------------------------------
(* The price specification: _calculate_discounted_price applied to prices  *)
(* and percentages with two fractional digits.                             *)

\* ProductService._calculate_discounted_price called on its own.
CalculateDiscountedPriceCall(product, discount) ==
    /\ result' = [op |-> "calculate_discounted_price",
                  price |-> product.price, discount |-> discount,
                  raised |-> "none",
                  value |-> CalculateDiscountedPrice(product, discount)]
    /\ UNCHANGED <<products, discounts, categories, images, reviews, listing, calls,
                 lastId>>

\* Prices in cents and percentages in hundredths of a percent.
PriceCents == {0, 1, 5, 99, 100, 199, 999, 1000, 9999, 10000, 12345, 99999}
PercentHundredths == {0, 1, 50, 333, 1000, 1550, 2000, 2050, 2500, 3333,
                      5000, 9999, 10000}

PriceInit ==
    /\ products = <<>>
    /\ discounts = {}
    /\ categories = <<>>
    /\ images = <<>>
    /\ reviews = <<>>
    /\ listing = Idle
    /\ calls = <<>>
    /\ lastId = [product |-> 0, discount |-> 0, category |-> 0,
                 review |-> 0, image |-> 0]
    /\ result = [op |-> "init", raised |-> "none"]


\* The products priced, and no discount or a discount of each percentage.
PricedProducts == {[price |-> Dec(c, 2)] : c \in PriceCents}

PriceDiscounts ==
    {{}} \cup {{[discount_percentage |-> Dec(h, 2)]} : h \in PercentHundredths}

PriceNext ==
    \E product \in PricedProducts, discount \in PriceDiscounts :
       CalculateDiscountedPriceCall(product, discount)

PriceSpec == PriceInit /\ [][PriceNext]_vars

\* C3: _calculate_discounted_price returns the price when the discount is
\* None, and otherwise exactly P - P * pct / 100, with no rounding error at
\* any decimal place; 100.00 at 20.00 percent gives 80.00.
C3_DiscountedPriceExact ==
    result.op = "calculate_discounted_price" =>
        /\ result.discount = {} => result.value = result.price
        /\ \A d \in result.discount :
              /\ result.value.e <= 6
              /\ DecScaled(result.value, 6) =
                    ExactDiscounted(result.price, d.discount_percentage)
              /\ (result.price = Dec(10000, 2)
                    /\ d.discount_percentage = Dec(2000, 2))
                 => result.value.c = 80 * Pow10(result.value.e)

\* 99.99 at 33.33 percent: the result 66.663333 needs all six places.
C3_Witness ==
    /\ result.op = "calculate_discounted_price"
    /\ result.price = Dec(9999, 2)
    /\ result.discount = {[discount_percentage |-> Dec(3333, 2)]}
    /\ result.value = Dec(66663333, 6)

----------------------------------------------------------------------------
(* CategoryService / ReviewService validation *)

MinNameLength == 2
MinCommentLength == 10
MinRating == 1
MaxRating == 5

\* dict.get(key) and dict.get(key, default) on a request payload.
DictGet(data, key) == IF key \in DOMAIN data THEN data[key] ELSE PyNone
DictGetDefault(data, key, default) ==
    IF key \in DOMAIN data THEN data[key] ELSE default

\* not x
PyNot(x) ==
    CASE x.t = "None" -> TRUE
      [] x.t = "str" -> x.v = <<>>
      [] x.t = "int" -> x.v = 0
      [] OTHER -> FALSE

Passed == [raised |-> "none", message |-> <<>>]
ValidationError(text) == [raised |-> "ValidationError", message |-> <<text>>]

\* CategoryService.validate_category(category_data)
ValidateCategoryOutcome(category_data) ==
    IF PyNot(DictGet(category_data, "name"))
    THEN ValidationError("Category name is required")
    ELSE IF Len(PyStrip(DictGetDefault(category_data, "name", PyStr(<<>>)).v))
               < MinNameLength
    THEN ValidationError("Category name must be at least 2 characters long")
    ELSE Passed

\* A review validation that lets the rating 0 through.
ValidateReviewOutcomeZero(review_data) ==
    LET rating == DictGet(review_data, "rating")
    IN  IF rating.t # "None" /\ (rating.v < 0 \/ rating.v > MaxRating)
        THEN ValidationError("Rating must be between 1 and 5")
        ELSE IF PyNot(DictGet(review_data, "comment"))
        THEN ValidationError("Review comment is required")
        ELSE IF Len(PyStrip(DictGetDefault(review_data, "comment",
                                           PyStr(<<>>)).v)) < MinCommentLength
        THEN ValidationError("Review comment must be at least 10 characters long")
        ELSE Passed

\* ReviewService.validate_review(review_data)
ValidateReviewOutcome(review_data) ==
    LET rating == DictGet(review_data, "rating")
    IN  IF rating.t # "None" /\ (rating.v < MinRating \/ rating.v > MaxRating)
        THEN ValidationError("Rating must be between 1 and 5")
        ELSE IF PyNot(DictGet(review_data, "comment"))
        THEN ValidationError("Review comment is required")
        ELSE IF Len(PyStrip(DictGetDefault(review_data, "comment",
                                           PyStr(<<>>)).v)) < MinCommentLength
        THEN ValidationError("Review comment must be at least 10 characters long")
        ELSE Passed

ValidateCategory(category_data) ==
    /\ LET out == ValidateCategoryOutcome(category_data)
       IN  result' = [op |-> "validate_category", data |-> category_data,
                      raised |-> out.raised, message |-> out.message,
                      repo_called |-> FALSE]
    /\ UNCHANGED <<products, discounts, categories, images, reviews, listing, calls,
                 lastId>>

ValidateReview(review_data) ==
    /\ LET out == ValidateReviewOutcome(review_data)
       IN  result' = [op |-> "validate_review", data |-> review_data,
                      raised |-> out.raised, message |-> out.message,
                      repo_called |-> FALSE]
    /\ UNCHANGED <<products, discounts, categories, images, reviews, listing, calls,
                 lastId>>

----------------------------------------------------------------------------
(* The validation specification: payloads with names, ratings and comments *)
(* that are absent, None or texts with and without surrounding blanks.     *)

MaxNameLen == 3
MaxBody == 11
MaxPad == 1

EmptyDict == [k \in {} |-> PyNone]

NameTexts == UNION {[1..n -> {"A", " "}] : n \in 0..MaxNameLen}

Blanks(n) == [i \in 1..n |-> " "]

\* n characters, the second one a blank when `inner` asks for it.
Body(n, inner) == [i \in 1..n |-> IF inner /\ i = 2 /\ n >= 3 THEN " " ELSE "x"]

GoodItem == <<"G", "o", "o", "d", " ", "i", "t", "e", "m", "!">>
Good == <<"G", "o", "o", "d">>

CommentTexts ==
    {GoodItem, Good}
    \cup {Blanks(l) \o Body(n, inner) \o Blanks(r) :
             l \in 0..MaxPad, r \in 0..MaxPad, n \in 0..MaxBody,
             inner \in BOOLEAN}

CategoryPayloads ==
    {EmptyDict, [name |-> PyNone]} \cup {[name |-> PyStr(s)] : s \in NameTexts}

RatingValues == {PyNone} \cup {PyInt(n) : n \in {0, 1, 3, 5, 6}}
CommentValues == {PyNone} \cup {PyStr(s) : s \in CommentTexts}

ReviewPayloads ==
    {[rating |-> r, comment |-> c] : r \in RatingValues, c \in CommentValues}
    \cup {[comment |-> c] : c \in CommentValues}
    \cup {[rating |-> r] : r \in RatingValues}

ValidationInit ==
    /\ products = FixtureProducts
    /\ discounts = {}
    /\ categories = FixtureCategories
    /\ images = <<>>
    /\ reviews = <<>>
    /\ listing = Idle
    /\ calls = <<>>
    /\ lastId = [product |-> 2, discount |-> 0, category |-> 1,
                 review |-> 0, image |-> 0]
    /\ result = [op |-> "init", raised |-> "none"]

ValidationNext ==
    \/ \E data \in CategoryPayloads : ValidateCategory(data)
    \/ \E data \in ReviewPayloads : ValidateReview(data)

ValidationSpec == ValidationInit /\ [][ValidationNext]_vars

\* The length of a text between its first and its last non-blank character.
TrimmedLen(s) ==
    LET idx == {i \in 1..Len(s) : s[i] \notin Whitespace}
    IN  IF idx = {} THEN 0
        ELSE (CHOOSE i \in idx : \A j \in idx : j <= i)
             - (CHOOSE i \in idx : \A j \in idx : i <= j) + 1

\* C8: validate_category raises ValidationError exactly when the name is
\* absent, None, empty or shorter than 2 characters after trimming, and calls
\* no repository.
C8_CategoryValidation ==
    result.op = "validate_category" =>
        LET d == result.data
        IN  /\ result.raised \in {"none", "ValidationError"}
            /\ (result.raised = "ValidationError") <=>
                  (\/ "name" \notin DOMAIN d
                   \/ d.name.t = "None"
                   \/ d.name.v = <<>>
                   \/ TrimmedLen(d.name.v) < 2)
            /\ ~result.repo_called
            /\ products = FixtureProducts /\ discounts = {}

\* A name of two or more characters is rejected because trimming leaves
\* fewer than two.
C8_Witness ==
    /\ result.op = "validate_category"
    /\ result.raised = "ValidationError"
    /\ "name" \in DOMAIN result.data
    /\ result.data.name.t = "str"
    /\ Len(result.data.name.v) >= 2
    /\ result.data.name.v[1] = "A"

\* C9: validate_review passes exactly when the rating is absent (or None) or
\* within 1..5, and the comment is present, non-empty and at least 10
\* characters long after trimming; otherwise it raises ValidationError.
C9_ReviewValidation ==
    result.op = "validate_review" =>
        LET d == result.data
            ratingOk == \/ "rating" \notin DOMAIN d
                        \/ d.rating.t = "None"
                        \/ (1 <= d.rating.v /\ d.rating.v <= 5)
            commentOk == /\ "comment" \in DOMAIN d
                         /\ d.comment.t = "str"
                         /\ d.comment.v # <<>>
                         /\ TrimmedLen(d.comment.v) >= 10
        IN  /\ result.raised \in {"none", "ValidationError"}
            /\ (result.raised = "none") <=> (ratingOk /\ commentOk)
            /\ (d = [comment |-> PyStr(GoodItem)]) => result.raised = "none"
            /\ ("comment" \in DOMAIN d /\ d.comment = PyStr(Good))
                  => result.raised = "ValidationError"

\* "Good item!" without a rating passes.
C9_Witness ==
    /\ result.op = "validate_review"
    /\ result.raised = "none"
    /\ DOMAIN result.data = {"comment"}
    /\ result.data.comment = PyStr(GoodItem)

----------------------------------------------------------------------------
(* The entity repositories: categories, products, reviews, discounts, and   *)
(* the images created through the model.                                    *)

\* The rows of a table and the table without some rows.
Rows(table) == {table[i] : i \in DOMAIN table}
Without(table, ids) == [i \in DOMAIN table \ ids |-> table[i]]

\* A collection that stops at the category itself.
CategoryCollectShallow(cats, ids) == ids

\* The categories a delete of `ids` collects: on_delete=CASCADE on
\* Category.parent takes every descendant with them.
RECURSIVE CategoryCollect(_, _)
CategoryCollect(cats, ids) ==
    LET children == {c \in DOMAIN cats \ ids : cats[c].parent_id \cap ids # {}}
    IN  IF children = {} THEN ids ELSE CategoryCollect(cats, ids \cup children)

\* The products of the categories `cs` (Product.category, on_delete=CASCADE).
ProductsOfCategories(ps, cs) == {i \in DOMAIN ps : ps[i].category_id \in cs}

\* The rows of a table that refer to the products `pids`.
ChildrenOfProducts(table, pids) ==
    {i \in DOMAIN table : table[i].product_id \in pids}

\* What Model.delete() reports of the rows it removed with the categories
\* `cs` and the products `ps`; the repositories return True in its place.
Collected(cs, ps) ==
    [categories |-> cs, products |-> ps,
     images |-> ChildrenOfProducts(images, ps),
     reviews |-> ChildrenOfProducts(reviews, ps),
     discounts |-> {d.id : d \in {x \in discounts : x.product_id \in ps}}]

\* CategoryRepository.get_by_id
CategoryGetById(cats, category_id) ==
    IF category_id \in DOMAIN cats
    THEN [raised |-> "none", value |-> {cats[category_id]}, message |-> <<>>]
    ELSE [raised |-> "ValueError", value |-> {},
          message |-> NotFoundMessage("Category", category_id)]

CategoryRepositoryGetById(category_id) ==
    /\ result' = [op |-> "category_get_by_id", id |-> category_id]
                 @@ CategoryGetById(categories, category_id)
    /\ UNCHANGED <<products, discounts, categories, images, reviews, listing, calls,
                   lastId>>

\* Category.save() of instance c over the other rows: the message of the
\* error, or <<>>.  The parent, when set, has to be a row of the table (the
\* row itself counts); an INSERT needs an id no row holds.
CategorySaveError(c, others, insert) ==
    IF insert /\ \E o \in others : o.id = c.id
    THEN <<"UNIQUE constraint failed: products_category.id">>
    ELSE IF ~(c.parent_id \subseteq {o.id : o \in others} \cup {c.id})
    THEN <<"FOREIGN KEY constraint failed">>
    ELSE <<>>

\* CategoryRepository.create(**kwargs)
CategoryCreate(kwargs) ==
    LET c == [id |-> InsertId(kwargs, lastId.category),
              name |-> Kw(kwargs, "name", <<>>),
              parent_id |-> Kw(kwargs, "parent_id", {})]
        e == CategorySaveError(c, Rows(categories), TRUE)
    IN  /\ IF e = <<>>
           THEN /\ categories' = (c.id :> c) @@ categories
                /\ lastId' = [lastId EXCEPT !.category = Max2(@, c.id)]
                /\ result' = [op |-> "category_create", raised |-> "none",
                              value |-> {c}]
           ELSE /\ UNCHANGED <<categories, lastId>>
                /\ result' = [op |-> "category_create",
                              raised |-> "ValueError",
                              message |-> <<"Error creating category:">> \o e]
        /\ UNCHANGED <<products, discounts, images, reviews, listing, calls>>

\* An update that replaces the row: a field the keyword arguments do not name
\* goes back to its default where it has one.
SetAttrsReset(row, kwargs) ==
    [f \in DOMAIN row |-> IF f \in DOMAIN kwargs THEN kwargs[f]
                          ELSE IF f = "is_active" THEN TRUE ELSE row[f]]

\* setattr(instance, key, value) for every keyword argument.
SetAttrs(row, kwargs) ==
    [f \in DOMAIN row |-> IF f \in DOMAIN kwargs THEN kwargs[f] ELSE row[f]]

\* CategoryRepository.update(category_id, **kwargs)
CategoryUpdate(category_id, kwargs) ==
    /\ IF category_id \notin DOMAIN categories
       THEN /\ UNCHANGED categories
            /\ result' = [op |-> "category_update", id |-> category_id, kwargs |-> kwargs,
                          raised |-> "ValueError",
                          message |-> NotFoundMessage("Category", category_id)]
       ELSE LET c == SetAttrs(categories[category_id], kwargs)
                e == CategorySaveError(
                         c, Rows(categories) \ {categories[category_id]},
                         FALSE)
            IN  IF e = <<>>
                THEN /\ categories' = [categories EXCEPT ![category_id] = c]
                     /\ result' = [op |-> "category_update",
                                   id |-> category_id, kwargs |-> kwargs, raised |-> "none",
                                   value |-> {c}]
                ELSE /\ UNCHANGED categories
                     /\ result' = [op |-> "category_update",
                                   id |-> category_id, kwargs |-> kwargs,
                                   raised |-> "ValueError",
                                   message |-> <<"Error updating category",
                                                 category_id>> \o e]
    /\ UNCHANGED <<products, discounts, images, reviews, listing, calls, lastId>>

\* CategoryRepository.delete(category_id): the delete collects and removes the
\* category's descendants, their products and those products' images, reviews
\* and discounts, in one transaction.  `deleted` keeps what it collected.
CategoryDelete(category_id) ==
    /\ IF category_id \notin DOMAIN categories
       THEN /\ UNCHANGED <<categories, products, images, reviews, discounts>>
            /\ result' = [op |-> "category_delete", id |-> category_id,
                          raised |-> "ValueError",
                          message |-> NotFoundMessage("Category", category_id)]
       ELSE LET cs == CategoryCollect(categories, {category_id})
                ps == ProductsOfCategories(products, cs)
            IN  /\ categories' = Without(categories, cs)
                /\ products' = Without(products, ps)
                /\ images' = Without(images, ChildrenOfProducts(images, ps))
                /\ reviews' = Without(reviews, ChildrenOfProducts(reviews, ps))
                /\ discounts' = {d \in discounts : d.product_id \notin ps}
                /\ result' = [op |-> "category_delete", id |-> category_id,
                              raised |-> "none", value |-> TRUE,
                              deleted |-> Collected(cs, ps)]
    /\ UNCHANGED <<listing, calls, lastId>>

\* ProductRepository.get_by_id as a call of its own.
ProductRepositoryGetById(product_id) ==
    /\ result' = [op |-> "product_get_by_id", id |-> product_id]
                 @@ ProductGetById(products, product_id)
    /\ UNCHANGED <<products, discounts, categories, images, reviews, listing, calls,
                   lastId>>

\* ProductRepository.update(product_id, **kwargs)
ProductUpdate(product_id, kwargs) ==
    /\ IF product_id \notin DOMAIN products
       THEN /\ UNCHANGED products
            /\ result' = [op |-> "product_update", id |-> product_id,
                          kwargs |-> kwargs, raised |-> "ValueError",
                          message |-> NotFoundMessage("Product", product_id)]
       ELSE LET p == SetAttrs(products[product_id], kwargs)
                e == ProductSaveError(
                         p, Rows(products) \ {products[product_id]},
                         categories)
            IN  IF e = <<>>
                THEN /\ products' = [products EXCEPT ![product_id] = p]
                     /\ result' = [op |-> "product_update", id |-> product_id,
                                   kwargs |-> kwargs, raised |-> "none",
                                   value |-> {p}]
                ELSE /\ UNCHANGED products
                     /\ result' = [op |-> "product_update", id |-> product_id,
                                   kwargs |-> kwargs, raised |-> "ValueError",
                                   message |-> <<"Error updating product",
                                                 product_id>> \o e]
    /\ UNCHANGED <<discounts, categories, images, reviews, listing, calls, lastId>>

\* A delete that answers False for a missing row instead of raising.
ProductDeleteQuiet(product_id) ==
    /\ IF product_id \notin DOMAIN products
       THEN /\ UNCHANGED <<products, images, reviews, discounts>>
            /\ result' = [op |-> "product_delete", id |-> product_id,
                          raised |-> "none", value |-> FALSE]
       ELSE LET ps == {product_id}
            IN  /\ products' = Without(products, ps)
                /\ images' = Without(images, ChildrenOfProducts(images, ps))
                /\ reviews' = Without(reviews, ChildrenOfProducts(reviews, ps))
                /\ discounts' = {d \in discounts : d.product_id \notin ps}
                /\ result' = [op |-> "product_delete", id |-> product_id,
                              raised |-> "none", value |-> TRUE,
                              deleted |-> Collected({}, ps)]
    /\ UNCHANGED <<categories, listing, calls, lastId>>

\* ProductRepository.delete(product_id): the delete removes the product's
\* images, reviews and discounts with it (on_delete=CASCADE).
ProductDelete(product_id) ==
    /\ IF product_id \notin DOMAIN products
       THEN /\ UNCHANGED <<products, images, reviews, discounts>>
            /\ result' = [op |-> "product_delete", id |-> product_id,
                          raised |-> "ValueError",
                          message |-> NotFoundMessage("Product", product_id)]
       ELSE LET ps == {product_id}
            IN  /\ products' = Without(products, ps)
                /\ images' = Without(images, ChildrenOfProducts(images, ps))
                /\ reviews' = Without(reviews, ChildrenOfProducts(reviews, ps))
                /\ discounts' = {d \in discounts : d.product_id \notin ps}
                /\ result' = [op |-> "product_delete", id |-> product_id,
                              raised |-> "none", value |-> TRUE,
                              deleted |-> Collected({}, ps)]
    /\ UNCHANGED <<categories, listing, calls, lastId>>

\* ProductImage.objects.create(product=...): there is no image repository;
\* an unknown product violates the foreign key.
ImageCreate(product_id) ==
    /\ IF product_id \in DOMAIN products
       THEN LET i == [id |-> lastId.image + 1, product_id |-> product_id]
            IN  /\ images' = (i.id :> i) @@ images
                /\ lastId' = [lastId EXCEPT !.image = @ + 1]
                /\ result' = [op |-> "image_create", raised |-> "none",
                              value |-> {i}]
       ELSE /\ UNCHANGED <<images, lastId>>
            /\ result' = [op |-> "image_create", raised |-> "IntegrityError",
                          message |-> <<"FOREIGN KEY constraint failed">>]
    /\ UNCHANGED <<products, discounts, categories, reviews, listing, calls>>

\* ProductReview.clean(): the message of the ValidationError, or <<>>.
ReviewClean(r) ==
    IF r.rating < 1 \/ r.rating > 5
    THEN <<"Rating must be between 1 and 5">>
    ELSE <<>>

\* A clean() that accepts every rating.
ReviewSaveErrorNoClean(r, ps) ==
    IF r.product_id \notin DOMAIN ps
    THEN <<"FOREIGN KEY constraint failed">>
    ELSE <<>>

\* ProductReview.save(): clean() first, then the product has to be a row of
\* the products table.  The reviewing user is an account of the framework,
\* outside this store.
ReviewSaveError(r, ps) ==
    IF ReviewClean(r) # <<>> THEN ReviewClean(r)
    ELSE IF r.product_id \notin DOMAIN ps
    THEN <<"FOREIGN KEY constraint failed">>
    ELSE <<>>

\* ProductReviewRepository.get_by_id
ReviewGetById(rs, review_id) ==
    IF review_id \in DOMAIN rs
    THEN [raised |-> "none", value |-> {rs[review_id]}, message |-> <<>>]
    ELSE [raised |-> "ValueError", value |-> {},
          message |-> NotFoundMessage("Review", review_id)]

ReviewRepositoryGetById(review_id) ==
    /\ result' = [op |-> "review_get_by_id", id |-> review_id]
                 @@ ReviewGetById(reviews, review_id)
    /\ UNCHANGED <<products, discounts, categories, images, reviews, listing, calls,
                   lastId>>

\* ProductReviewRepository.get_by_product(product_id): the ids selected.
ReviewGetByProduct(rs, product_id) == ChildrenOfProducts(rs, {product_id})

\* rating has no default: the instance of a create without it holds None,
\* and clean() compares it with 1, a TypeError.
ReviewMissingField(kwargs) ==
    IF "rating" \notin DOMAIN kwargs
    THEN <<"'<' not supported between instances of 'NoneType' and 'int'">>
    ELSE <<>>

\* ProductReviewRepository.create(**kwargs)
ReviewCreate(kwargs) ==
    LET r == [id |-> InsertId(kwargs, lastId.review),
              product_id |-> kwargs.product_id,
              rating |-> kwargs.rating]
        e == IF ReviewMissingField(kwargs) # <<>>
             THEN ReviewMissingField(kwargs)
             ELSE ReviewSaveError(r, products)
    IN  /\ IF e = <<>>
           THEN /\ reviews' = (r.id :> r) @@ reviews
                /\ lastId' = [lastId EXCEPT !.review = Max2(@, r.id)]
                /\ result' = [op |-> "review_create", kwargs |-> kwargs,
                              raised |-> "none", value |-> {r}]
           ELSE /\ UNCHANGED <<reviews, lastId>>
                /\ result' = [op |-> "review_create", kwargs |-> kwargs,
                              raised |-> "ValueError",
                              message |-> <<"Error creating review:">> \o e]
        /\ UNCHANGED <<products, discounts, categories, images, listing, calls>>

\* ProductReviewRepository.update(review_id, **kwargs)
ReviewUpdate(review_id, kwargs) ==
    /\ IF review_id \notin DOMAIN reviews
       THEN /\ UNCHANGED reviews
            /\ result' = [op |-> "review_update", id |-> review_id, kwargs |-> kwargs,
                          raised |-> "ValueError",
                          message |-> NotFoundMessage("Review", review_id)]
       ELSE LET r == SetAttrs(reviews[review_id], kwargs)
                e == ReviewSaveError(r, products)
            IN  IF e = <<>>
                THEN /\ reviews' = [reviews EXCEPT ![review_id] = r]
                     /\ result' = [op |-> "review_update", id |-> review_id, kwargs |-> kwargs,
                                   raised |-> "none", value |-> {r}]
                ELSE /\ UNCHANGED reviews
                     /\ result' = [op |-> "review_update", id |-> review_id, kwargs |-> kwargs,
                                   raised |-> "ValueError",
                                   message |-> <<"Error updating review",
                                                 review_id>> \o e]
    /\ UNCHANGED <<products, discounts, categories, images, listing, calls, lastId>>

\* ProductReviewRepository.delete(review_id)
ReviewDelete(review_id) ==
    /\ IF review_id \notin DOMAIN reviews
       THEN /\ UNCHANGED reviews
            /\ result' = [op |-> "review_delete", id |-> review_id,
                          raised |-> "ValueError",
                          message |-> NotFoundMessage("Review", review_id)]
       ELSE /\ reviews' = Without(reviews, {review_id})
            /\ result' = [op |-> "review_delete", id |-> review_id,
                          raised |-> "none", value |-> TRUE]
    /\ UNCHANGED <<products, discounts, categories, images, listing, calls, lastId>>

\* ProductDiscountRepository.get_by_id
DiscountGetById(ds, discount_id) ==
    IF \E d \in ds : d.id = discount_id
    THEN [raised |-> "none", value |-> {d \in ds : d.id = discount_id},
          message |-> <<>>]
    ELSE [raised |-> "ValueError", value |-> {},
          message |-> NotFoundMessage("Discount", discount_id)]

DiscountRepositoryGetById(discount_id) ==
    /\ result' = [op |-> "discount_get_by_id", id |-> discount_id]
                 @@ DiscountGetById(discounts, discount_id)
    /\ UNCHANGED <<products, discounts, categories, images, reviews, listing, calls,
                   lastId>>

\* ProductDiscountRepository.update(discount_id, **kwargs)
DiscountUpdate(discount_id, kwargs) ==
    /\ IF DiscountGetById(discounts, discount_id).value = {}
       THEN /\ UNCHANGED discounts
            /\ result' = [op |-> "discount_update", id |-> discount_id, kwargs |-> kwargs,
                          raised |-> "ValueError",
                          message |-> NotFoundMessage("Discount", discount_id)]
       ELSE LET old == CHOOSE d \in discounts : d.id = discount_id
                d == SetAttrs(old, kwargs)
            IN  IF d.product_id \in DOMAIN products
                THEN /\ discounts' = (discounts \ {old}) \cup {d}
                     /\ result' = [op |-> "discount_update",
                                   id |-> discount_id, kwargs |-> kwargs, raised |-> "none",
                                   value |-> {d}]
                ELSE /\ UNCHANGED discounts
                     /\ result' = [op |-> "discount_update",
                                   id |-> discount_id, kwargs |-> kwargs,
                                   raised |-> "ValueError",
                                   message |-> <<"Error updating discount",
                                                 discount_id,
                                                 "FOREIGN KEY constraint failed">>]
    /\ UNCHANGED <<products, categories, images, reviews, listing, calls, lastId>>

\* ProductDiscountRepository.delete(discount_id)
DiscountDelete(discount_id) ==
    /\ IF DiscountGetById(discounts, discount_id).value = {}
       THEN /\ UNCHANGED discounts
            /\ result' = [op |-> "discount_delete", id |-> discount_id,
                          raised |-> "ValueError",
                          message |-> NotFoundMessage("Discount", discount_id)]
       ELSE /\ discounts' = {d \in discounts : d.id # discount_id}
            /\ result' = [op |-> "discount_delete", id |-> discount_id,
                          raised |-> "none", value |-> TRUE]
    /\ UNCHANGED <<products, categories, images, reviews, listing, calls, lastId>>

----------------------------------------------------------------------------
(* Text search (name__icontains / description__icontains) *)

\* The lower-case form of a character; the alphabet of the names is a, A, b.
Lower(c) == IF c = "A" THEN "a" ELSE IF c = "B" THEN "b" ELSE c

LowerText(t) == [i \in 1..Len(t) |-> Lower(t[i])]

\* text icontains query: query occurs in text, letter case ignored.  The empty
\* query occurs in every text.
IContains(text, query) ==
    \E i \in 0..(Len(text) - Len(query)) :
        SubSeq(LowerText(text), i + 1, i + Len(query)) = LowerText(query)

\* ProductRepository.search_by_name_or_description(query): the ids selected.
ProductSearchByNameOrDescription(ps, query) ==
    {id \in DOMAIN ps : \/ IContains(ps[id].name, query)
                        \/ IContains(ps[id].description, query)}

\* A search_products that hands every query to the repository.
SearchProductsNoGuard(query) ==
    /\ result' = [op |-> "search_products", query |-> query,
                  raised |-> "none",
                  calls |-> <<"search_by_name_or_description">>,
                  value |-> ProductSearchByNameOrDescription(
                                products,
                                IF query.t = "str" THEN query.v ELSE <<>>)]
    /\ UNCHANGED <<products, discounts, categories, images, reviews, listing, calls,
                   lastId>>

\* ProductService.search_products(query): `calls` lists the repository
\* methods invoked.
SearchProducts(query) ==
    /\ IF PyNot(query)
       THEN result' = [op |-> "search_products", query |-> query,
                       raised |-> "none",
                       calls |-> <<"get_all">>,
                       value |-> {}]
       ELSE result' = [op |-> "search_products", query |-> query,
                       raised |-> "none",
                       calls |-> <<"search_by_name_or_description">>,
                       value |-> ProductSearchByNameOrDescription(
                                     products, query.v)]
    /\ UNCHANGED <<products, discounts, categories, images, reviews, listing, calls,
                   lastId>>

----------------------------------------------------------------------------
(* ProductService: the filtered and enriched listing *)

The(optional) == CHOOSE x \in optional : TRUE

\* price__gte / price__lte on Decimals of at most two fractional digits.
DecLE(a, b) == DecScaled(a, 2) <= DecScaled(b, 2)

\* float('inf'), the upper bound the service passes for an absent max_price.
Infinity == [inf |-> TRUE]

\* ProductRepository.get_by_price_range(min_price, max_price): the ids selected.
ProductGetByPriceRange(ps, min_price, max_price) ==
    {id \in DOMAIN ps : /\ DecLE(min_price, ps[id].price)
                        /\ \/ max_price = Infinity
                           \/ DecLE(ps[id].price, max_price)}

\* What price__lte does with its bound.  A finite bound is accepted.
\* float('inf') depends on the Django the build runs on: DecimalField's
\* to_python rejects a bound that is not finite with ValidationError where it
\* checks is_finite(), and hands it to the database, where every price
\* compares below it, where it does not.
PriceLookupOutcomes(filters) ==
    IF filters.min_price # {} /\ filters.max_price = {}
    THEN {"accepted", "rejected"}
    ELSE {"accepted"}

\* queryset.filter(category=category): the ids of `ids` selected.
FilterCategory(ps, ids, category) ==
    {id \in ids : ps[id].category_id = category}

\* The filters of a listing: every key holds {} (None) or {value}.
\* An absent min_price becomes 0, an absent max_price float('inf').
Filters(category, search, min_price, max_price, is_active) ==
    [category |-> category, search |-> search, min_price |-> min_price,
     max_price |-> max_price, is_active |-> is_active]

\* The queryset get_products_with_filters_and_enrichment builds (services.py
\* 151-168): get_all(), narrowed by the category; a search and a price range
\* each assign a fresh repository query to `queryset`.  filters['is_active']
\* is never read.
ListQueryset(ps, filters) ==
    LET all == DOMAIN ps
        byCategory ==
            IF filters.category # {}
            THEN FilterCategory(ps, all, The(filters.category))
            ELSE all
        bySearch ==
            IF filters.search # {}
            THEN ProductSearchByNameOrDescription(ps, The(filters.search))
            ELSE byCategory
    IN  IF filters.min_price # {} \/ filters.max_price # {}
        THEN ProductGetByPriceRange(
                 ps,
                 IF filters.min_price # {} THEN The(filters.min_price)
                 ELSE Dec(0, 0),
                 IF filters.max_price # {} THEN The(filters.max_price)
                 ELSE Infinity)
        ELSE bySearch

\* The ids of a set in increasing order: the order the rows come back in.
RECURSIVE SortedIds(_)
SortedIds(ids) ==
    IF ids = {} THEN <<>>
    ELSE LET m == CHOOSE i \in ids : \A j \in ids : i <= j
         IN  <<m>> \o SortedIds(ids \ {m})

\* total_rating += review.rating over the reviews `ids`.
RECURSIVE TotalRating(_, _)
TotalRating(rs, ids) ==
    IF ids = {} THEN 0
    ELSE LET i == CHOOSE x \in ids : TRUE
         IN  rs[i].rating + TotalRating(rs, ids \ {i})

\* A quotient num / den of Python's true division, and the int n.
Quotient(num, den) == [num |-> num, den |-> den]

\* An average that divides with //.
AverageRatingFloor(rs, product_id) ==
    LET ids == ReviewGetByProduct(rs, product_id)
    IN  IF ids # {}
        THEN Quotient(TotalRating(rs, ids) \div Cardinality(ids), 1)
        ELSE Quotient(0, 1)

\* services.py 185-192: total_rating / len(reviews), or 0 without reviews.
AverageRating(rs, product_id) ==
    LET ids == ReviewGetByProduct(rs, product_id)
    IN  IF ids # {}
        THEN Quotient(TotalRating(rs, ids), Cardinality(ids))
        ELSE Quotient(0, 1)

UnknownCategory == <<"Unknown Category">>

\* The for loop of the listing evaluates the queryset once, then enriches row
\* after row with three reads of the store: the category, the images, the
\* reviews.  Other requests run between the reads.  `listing` holds the
\* request in flight: the rows fetched, the rows enriched so far (`done`), the
\* row being enriched (`entry`) and the read that comes next (`pc`).  The
\* caller of a request in flight holds no answer yet.
ListBegin(filters) ==
    /\ listing.pc = "idle"
    /\ \E lookup \in PriceLookupOutcomes(filters) :
          LET ids == SortedIds(ListQueryset(products, filters))
          IN  IF lookup = "rejected"
              THEN /\ result' = [op |-> "list", filters |-> filters,
                                 raised |-> "ValidationError"]
                   /\ UNCHANGED <<listing, calls>>
              ELSE IF ids = <<>>
              THEN /\ result' = [op |-> "list", filters |-> filters,
                                 raised |-> "none", ids |-> ids,
                                 value |-> <<>>]
                   /\ UNCHANGED <<listing, calls>>
              ELSE /\ listing' = [pc |-> "category", filters |-> filters,
                                  rows |-> [i \in 1..Len(ids) |->
                                               products[ids[i]]],
                                  done |-> <<>>,
                                  entry |-> products[ids[1]]]
                   /\ result' = [op |-> "list_begin", raised |-> "none"]
    /\ UNCHANGED <<products, discounts, categories, images, reviews, lastId,
                   calls>>

\* An enrichment whose category lookup has no try/except: the ValueError
\* ends the request.
EnrichCategoryNoTry ==
    /\ listing.pc # "idle"
    /\ listing.pc = "category"
    /\ LET found == CategoryGetById(categories, listing.entry.category_id)
       IN  IF found.raised = "none"
           THEN /\ listing' =
                       [listing EXCEPT
                           !.pc = "images",
                           !.entry = [category_name |-> The(found.value).name]
                                     @@ listing.entry]
                /\ UNCHANGED result
           ELSE /\ listing' = Idle
                /\ result' = [op |-> "list", filters |-> listing.filters,
                              raised |-> "ValueError",
                              message |-> found.message]
    /\ UNCHANGED <<products, discounts, categories, images, reviews, lastId,
                   calls>>

\* services.py 173-177: category_repository.get_by_id(product.category_id) in
\* a try; a ValueError leaves "Unknown Category".
EnrichCategory ==
    /\ listing.pc # "idle"
    /\ listing.pc = "category"
    /\ LET found == CategoryGetById(categories, listing.entry.category_id)
           name == IF found.raised = "none" THEN The(found.value).name
                   ELSE UnknownCategory
       IN  listing' = [listing EXCEPT
                          !.pc = "images",
                          !.entry = [category_name |-> name] @@ listing.entry]
    /\ UNCHANGED <<products, discounts, categories, images, reviews, lastId,
                   result, calls>>

\* services.py 180-182: len(ProductImage.objects.filter(product=product))
EnrichImages ==
    /\ listing.pc # "idle"
    /\ listing.pc = "images"
    /\ listing' =
           [listing EXCEPT
               !.pc = "reviews",
               !.entry = [image_count |->
                              Cardinality(ChildrenOfProducts(
                                  images, {listing.entry.id}))]
                         @@ listing.entry]
    /\ UNCHANGED <<products, discounts, categories, images, reviews, lastId,
                   result, calls>>

\* services.py 185-192 and the end of the loop body: the next row, or the
\* return of the enriched rows.
EnrichReviews ==
    /\ listing.pc # "idle"
    /\ listing.pc = "reviews"
    /\ LET entry == [average_rating |->
                         AverageRating(reviews, listing.entry.id)]
                    @@ listing.entry
           done == Append(listing.done, entry)
       IN  IF Len(done) < Len(listing.rows)
           THEN /\ listing' = [listing EXCEPT
                                  !.pc = "category",
                                  !.done = done,
                                  !.entry = listing.rows[Len(done) + 1]]
                /\ UNCHANGED result
           ELSE /\ listing' = Idle
                /\ result' = [op |-> "list", filters |-> listing.filters,
                              raised |-> "none",
                              ids |-> [i \in 1..Len(done) |-> done[i].id],
                              value |-> done]
    /\ UNCHANGED <<products, discounts, categories, images, reviews, lastId,
                   calls>>

----------------------------------------------------------------------------
(* The filter specification: products of two categories are created,        *)
(* searched and listed under every combination of filters.                  *)

ListingCategories ==
    (1 :> [id |-> 1, name |-> <<"a">>, parent_id |-> {}]) @@
    (2 :> [id |-> 2, name |-> <<"b">>, parent_id |-> {}])

ListedProducts ==
    {[name |-> <<"A", "b">>, description |-> <<>>, price |-> Dec(1000, 2),
      category_id |-> 1, stock_quantity |-> 10, sku |-> "SKU1",
      is_active |-> TRUE],
     [name |-> <<"b">>, description |-> <<"a">>, price |-> Dec(2000, 2),
      category_id |-> 2, stock_quantity |-> 5, sku |-> "SKU2",
      is_active |-> FALSE],
     [name |-> <<"b">>, description |-> <<>>, price |-> Dec(1000, 2),
      category_id |-> 2, stock_quantity |-> 0, sku |-> "SKU3",
      is_active |-> TRUE]}

Queries ==
    {PyNone} \cup
    {PyStr(q) : q \in {<<>>, <<"a">>, <<"B">>, <<"a", "b">>, <<"x">>}}

\* No bound, an upper bound, a lower bound, both bounds.
PriceFilters ==
    {<<{}, {}>>, <<{}, {Dec(1500, 2)}>>, <<{Dec(1500, 2)}, {}>>,
     <<{Dec(1500, 2)}, {Dec(2500, 2)}>>}

ListFilters ==
    {Filters(c, s, p[1], p[2], a) :
        c \in {{}} \cup {{i} : i \in DOMAIN ListingCategories},
        s \in {{}, {<<"a">>}, {<<"B">>}},
        p \in PriceFilters,
        a \in {{}, {TRUE}, {FALSE}}}

NoFilters == Filters({}, {}, {}, {}, {})

FilterInit ==
    /\ products = <<>>
    /\ discounts = {}
    /\ categories = ListingCategories
    /\ images = <<>>
    /\ reviews = <<>>
    /\ listing = Idle
    /\ calls = <<>>
    /\ lastId = [product |-> 0, discount |-> 0, category |-> 2,
                 review |-> 0, image |-> 0]
    /\ result = [op |-> "init", raised |-> "none"]

FilterNext ==
    \/ \E kwargs \in ListedProducts : ProductCreate(kwargs)
    \/ \E query \in Queries : SearchProducts(query)
    \/ \E filters \in ListFilters : ListBegin(filters)
    \/ EnrichCategory
    \/ EnrichImages
    \/ EnrichReviews

FilterSpec == FilterInit /\ [][FilterNext]_vars

----------------------------------------------------------------------------
(* Claims on search and on the listing's filters (FilterSpec) *)

\* C11: search_products returns the empty set and does not call the
\* repository's name/description search when the query is None or empty,
\* whatever the store holds; for any other query it returns exactly what
\* search_by_name_or_description(query) selects.
C11_SearchEmptyOrDelegated ==
    result.op = "search_products" =>
        /\ result.raised = "none"
        /\ IF result.query.t = "None"
              \/ (result.query.t = "str" /\ result.query.v = <<>>)
           THEN /\ result.value = {}
                /\ \A i \in 1..Len(result.calls) :
                       result.calls[i] # "search_by_name_or_description"
           ELSE /\ result.calls = <<"search_by_name_or_description">>
                /\ result.value =
                       {id \in DOMAIN products :
                           \/ IContains(products[id].name, result.query.v)
                           \/ IContains(products[id].description,
                                        result.query.v)}

\* An empty query over a store whose every product an empty substring
\* matches, answered with no product; and a query that selects some product
\* and not another.
C11_Witness ==
    /\ result.op = "search_products"
    /\ result.query.t = "str"
    /\ result.query.v = <<>>
    /\ Cardinality(DOMAIN products) = 2
    /\ ProductSearchByNameOrDescription(products, <<>>) = DOMAIN products
    /\ result.value = {}

\* Whether the row of a listing passes the filter named `key`.
Passes(row, filters, key) ==
    CASE key = "category" -> row.category_id = The(filters.category)
      [] key = "search" ->
            \/ IContains(row.name, The(filters.search))
            \/ IContains(row.description, The(filters.search))
      [] key = "price" ->
            /\ filters.min_price # {} =>
                   DecLE(The(filters.min_price), row.price)
            /\ filters.max_price # {} =>
                   DecLE(row.price, The(filters.max_price))
      [] key = "is_active" -> row.is_active = The(filters.is_active)

Supplied(filters, key) ==
    IF key = "price" THEN filters.min_price # {} \/ filters.max_price # {}
    ELSE filters[key] # {}

\* C14: the category, search and price filters of a listing compose by
\* narrowing: every product returned passes every filter supplied.
C14_FiltersNarrow ==
    (result.op = "list" /\ result.raised = "none") =>
        \A i \in 1..Len(result.value) :
            \A key \in {"category", "search", "price"} :
                Supplied(result.filters, key) =>
                    Passes(result.value[i], result.filters, key)

\* C15: a listing given is_active returns only products whose is_active flag
\* equals the value given.
C15_IsActiveHonoured ==
    (result.op = "list" /\ result.raised = "none") =>
        \A i \in 1..Len(result.value) :
            Supplied(result.filters, "is_active") =>
                Passes(result.value[i], result.filters, "is_active")

----------------------------------------------------------------------------
(* The enrichment specification: two products of two categories are listed  *)
(* while reviews and images are added and categories are deleted.           *)

EnrichedProducts ==
    (1 :> ProductInstance(1, CHOOSE k \in ListedProducts : k.sku = "SKU1")) @@
    (2 :> ProductInstance(2, CHOOSE k \in ListedProducts : k.sku = "SKU2"))

\* Ratings whose mean over two reviews is no integer.
ReviewRatings == {1, 2}

EnrichmentInit ==
    /\ products = EnrichedProducts
    /\ discounts = {}
    /\ categories = ListingCategories
    /\ images = <<>>
    /\ reviews = <<>>
    /\ listing = Idle
    /\ calls = <<>>
    /\ lastId = [product |-> 2, discount |-> 0, category |-> 2,
                 review |-> 0, image |-> 0]
    /\ result = [op |-> "init", raised |-> "none"]


\* A review of each rating for each listed product.
EnrichmentReviews ==
    {[product_id |-> p, rating |-> rating] :
        p \in DOMAIN EnrichedProducts, rating \in ReviewRatings}

EnrichmentNext ==
    \/ /\ lastId.review < MaxReviews
       /\ \E kwargs \in EnrichmentReviews : ReviewCreate(kwargs)
    \/ /\ lastId.image < MaxImages
       /\ \E p \in DOMAIN EnrichedProducts : ImageCreate(p)
    \/ \E c \in DOMAIN ListingCategories : CategoryDelete(c)
    \/ ListBegin(NoFilters)
    \/ EnrichCategory
    \/ EnrichImages
    \/ EnrichReviews

EnrichmentSpec == EnrichmentInit /\ [][EnrichmentNext]_vars

----------------------------------------------------------------------------
(* Claims on the listing's enrichment (EnrichmentSpec) *)

\* The reviews and the images of a product, and the sum of its ratings
\* counted rating by rating.
ReviewsOf(product_id) ==
    {i \in DOMAIN reviews : reviews[i].product_id = product_id}
ImagesOf(product_id) ==
    {i \in DOMAIN images : images[i].product_id = product_id}
RECURSIVE RatingSum(_, _)
RatingSum(product_id, rating) ==
    IF rating = 0 THEN 0
    ELSE rating * Cardinality({i \in ReviewsOf(product_id) :
                                   reviews[i].rating = rating})
         + RatingSum(product_id, rating - 1)

\* The row the step that reads the reviews has just finished.
LastEnriched ==
    IF listing'.pc = "idle" THEN result'.value[Len(result'.value)]
    ELSE listing'.done[Len(listing'.done)]

\* C12: the average_rating a listing gives a product is the sum of the
\* ratings of the product's reviews divided by their number, and exactly 0
\* when the product has no review (no division by zero); its image_count is
\* the number of the product's images.
C12_AverageAndImageCount ==
    [][/\ (listing.pc = "reviews" /\ listing' # listing) =>
              LET avg == LastEnriched.average_rating
                  n == Cardinality(ReviewsOf(listing.entry.id))
              IN  /\ LastEnriched.id = listing.entry.id
                  /\ avg.den # 0
                  /\ n = 0 => avg = Quotient(0, 1)
                  /\ n > 0 => avg.num * n
                              = RatingSum(listing.entry.id, MaxRating) * avg.den
       /\ (listing.pc = "images" /\ listing' # listing) =>
              listing'.entry.image_count
              = Cardinality(ImagesOf(listing.entry.id))]_vars

\* A listing returned: one product with two reviews of mean 3/2 and one
\* image, the other with no review, average exactly 0, and no image.
C12_Witness ==
    /\ result.op = "list"
    /\ Len(result.value) = 2
    /\ \E i, j \in 1..2 :
          /\ result.value[i].average_rating = Quotient(3, 2)
          /\ result.value[i].image_count = 1
          /\ result.value[j].average_rating = Quotient(0, 1)
          /\ result.value[j].image_count = 0
          /\ ReviewsOf(result.value[j].id) = {}

\* C13: a category lookup that fails during enrichment never reaches the
\* caller of the listing as an error: the row gets the category_name
\* "Unknown Category", the rows after it are enriched and every row fetched
\* is returned; a lookup that succeeds gives the name of the row's category.
C13_UnknownCategory ==
    [][/\ (listing.pc = "category" /\ listing' # listing) =>
              /\ listing'.pc = "images"
              /\ listing'.entry.id = listing.entry.id
              /\ listing'.entry.category_name =
                     IF listing.entry.category_id \in DOMAIN categories
                     THEN categories[listing.entry.category_id].name
                     ELSE <<"Unknown Category">>
       /\ (listing.pc # "idle" /\ listing'.pc = "idle") =>
              /\ result'.op = "list"
              /\ result'.raised = "none"
              /\ Len(result'.value) = Len(listing.rows)
              /\ \A i \in 1..Len(listing.rows) :
                     result'.value[i].id = listing.rows[i].id]_vars

\* A listing returned whose first row lost its category before the lookup
\* and whose second row, enriched after it, has its category's name.
C13_Witness ==
    /\ result.op = "list"
    /\ result.raised = "none"
    /\ Len(result.value) = 2
    /\ result.value[1].category_name = <<"Unknown Category">>
    /\ result.value[2].category_name = ListingCategories[2].name

----------------------------------------------------------------------------
(* The repository specification: every repository's create, get_by_id,      *)
(* update and delete over an empty store.                                   *)

\* The store has room for another row: the repository specifications follow
\* it over the first MaxRows rows it is given.
HasRoom ==
    lastId.category + lastId.product + lastId.review + lastId.discount
    + lastId.image < MaxRows

CategoryIds == 1..MaxCategories
ProductIds == 1..MaxProducts
ChildIds == 1..MaxChildren

\* One product per sku, and one that names its own id as request.data may.
RepositoryProducts ==
    {[name |-> <<"a">>, price |-> Dec(1000, 2), category_id |-> 1,
      stock_quantity |-> 10, sku |-> sku] : sku \in CreateSkus}
    \cup {[id |-> 1, name |-> <<"a">>, price |-> Dec(1000, 2),
           category_id |-> 1, stock_quantity |-> 10, sku |-> "SKU1"]}

RepositoryInit ==
    /\ products = <<>>
    /\ discounts = {}
    /\ categories = <<>>
    /\ images = <<>>
    /\ reviews = <<>>
    /\ listing = Idle
    /\ calls = <<>>
    /\ lastId = [product |-> 0, discount |-> 0, category |-> 0,
                 review |-> 0, image |-> 0]
    /\ result = [op |-> "init", raised |-> "none"]


\* A review of rating 3 for each product id, and a discount of 20 %.
RepositoryReviews == {[product_id |-> p, rating |-> 3] : p \in ProductIds}

TwentyPercent == Dec(2000, 2)

RepositoryNext ==
    \/ /\ HasRoom
       /\ lastId.category < MaxCategories
       /\ CategoryCreate([name |-> <<"a">>])
    \/ \E id \in CategoryIds : CategoryRepositoryGetById(id)
    \/ \E id \in CategoryIds : CategoryUpdate(id, [name |-> <<"b">>])
    \/ \E id \in CategoryIds : CategoryDelete(id)
    \/ /\ HasRoom
       /\ \E kwargs \in RepositoryProducts : ProductCreate(kwargs)
    \/ \E id \in ProductIds : ProductRepositoryGetById(id)
    \/ \E id \in ProductIds : ProductUpdate(id, [is_active |-> FALSE])
    \/ \E id \in ProductIds : ProductDelete(id)
    \/ /\ HasRoom
       /\ lastId.review < MaxChildren
       /\ \E kwargs \in RepositoryReviews : ReviewCreate(kwargs)
    \/ \E id \in ChildIds : ReviewRepositoryGetById(id)
    \/ \E id \in ChildIds : ReviewUpdate(id, [rating |-> 4])
    \/ \E id \in ChildIds : ReviewDelete(id)
    \/ /\ HasRoom
       /\ lastId.discount < MaxChildren
       /\ \E p \in ProductIds : DiscountCreate(p, TwentyPercent, 0, 2, TRUE)
    \/ \E id \in ChildIds : DiscountRepositoryGetById(id)
    \/ \E id \in ChildIds : DiscountUpdate(id, [is_active |-> FALSE])
    \/ \E id \in ChildIds : DiscountDelete(id)

RepositorySpec == RepositoryInit /\ [][RepositoryNext]_vars

----------------------------------------------------------------------------
(* Claims on the repositories (RepositorySpec) *)

\* The four repositories: the entity name of the messages, the operations as
\* `result` names them, and the table's counter.
Repositories ==
    {[entity |-> "Product", counter |-> "product",
      get |-> "product_get_by_id", update |-> "product_update",
      delete |-> "product_delete"],
     [entity |-> "Category", counter |-> "category",
      get |-> "category_get_by_id", update |-> "category_update",
      delete |-> "category_delete"],
     [entity |-> "Review", counter |-> "review",
      get |-> "review_get_by_id", update |-> "review_update",
      delete |-> "review_delete"],
     [entity |-> "Discount", counter |-> "discount",
      get |-> "discount_get_by_id", update |-> "discount_update",
      delete |-> "discount_delete"]}

\* The ids a repository's table holds before and after a step.
StoredIds(repo) ==
    CASE repo.entity = "Product" -> DOMAIN products
      [] repo.entity = "Category" -> DOMAIN categories
      [] repo.entity = "Review" -> DOMAIN reviews
      [] repo.entity = "Discount" -> {d.id : d \in discounts}
StoredIdsAfter(repo) ==
    CASE repo.entity = "Product" -> DOMAIN products'
      [] repo.entity = "Category" -> DOMAIN categories'
      [] repo.entity = "Review" -> DOMAIN reviews'
      [] repo.entity = "Discount" -> {d.id : d \in discounts'}

\* The step is a get_by_id, update or delete of the repository.
CallsById(repo) == result'.op \in {repo.get, repo.update, repo.delete}

\* The call of the step failed with the repository's NotFound.
FailsNotFound(repo) ==
    /\ result'.raised = "ValueError"
    /\ result'.message = <<repo.entity, "with id", result'.id, "not found">>

\* C16: get_by_id, update and delete of the product, category, review and
\* discount repositories, called with an id the store does not hold, fail
\* with ValueError("<Entity> with id <id> not found") and leave the store
\* unchanged.
C16_AbsentIdNotFound ==
    [][\A repo \in Repositories :
           (CallsById(repo) /\ result'.id \notin StoredIds(repo)) =>
               /\ FailsNotFound(repo)
               /\ UNCHANGED <<products, discounts, categories, images,
                              reviews, lastId>>]_vars

\* "Category with id 2 not found" from a delete, over a store that holds
\* another category.
C16_Witness ==
    /\ result.op = "category_delete"
    /\ result.raised = "ValueError"
    /\ result.message = <<"Category", "with id", 2, "not found">>
    /\ DOMAIN categories = {1}

\* An id the table handed out and holds no more: its row was deleted.
Deleted(repo, id) ==
    /\ id \in 1..lastId[repo.counter]
    /\ id \notin StoredIds(repo)

\* C17: delete(id) of a stored entity returns True and removes it; in every
\* later state the id stays absent, and get_by_id, update and delete of it
\* fail with NotFound.
C17_DeletedStaysDeleted ==
    [][\A repo \in Repositories :
           /\ (result'.op = repo.delete /\ result'.id \in StoredIds(repo)) =>
                  /\ result'.raised = "none"
                  /\ result'.value = TRUE
                  /\ result'.id \notin StoredIdsAfter(repo)
           /\ \A id \in 1..lastId[repo.counter] :
                  Deleted(repo, id) => id \notin StoredIdsAfter(repo)
           /\ (CallsById(repo) /\ Deleted(repo, result'.id)) =>
                  FailsNotFound(repo)]_vars

----------------------------------------------------------------------------
(* The integrity specification: rows are created under, moved between and   *)
(* deleted with their parents.                                              *)

OptionalCategories == {{}} \cup {{c} : c \in CategoryIds}

IntegrityInit == RepositoryInit


\* A category under each optional parent, and a product of each sku in each
\* category id.
IntegrityCategories ==
    {[name |-> <<"a">>, parent_id |-> parent] : parent \in OptionalCategories}

IntegrityProducts ==
    {[name |-> <<"a">>, price |-> Dec(1000, 2), category_id |-> c,
      stock_quantity |-> 10, sku |-> sku] :
        c \in CategoryIds, sku \in CreateSkus}

IntegrityNext ==
    \/ /\ HasRoom
       /\ lastId.category < MaxCategories
       /\ \E kwargs \in IntegrityCategories : CategoryCreate(kwargs)
    \/ \E id \in CategoryIds, parent \in OptionalCategories :
          CategoryUpdate(id, [parent_id |-> parent])
    \/ \E id \in CategoryIds : CategoryDelete(id)
    \/ /\ HasRoom
       /\ \E kwargs \in IntegrityProducts : ProductCreate(kwargs)
    \/ \E id \in ProductIds, c \in CategoryIds :
          ProductUpdate(id, [category_id |-> c])
    \/ \E id \in ProductIds : ProductDelete(id)
    \/ /\ HasRoom
       /\ lastId.review < MaxChildren
       /\ \E kwargs \in RepositoryReviews : ReviewCreate(kwargs)
    \/ \E id \in ChildIds, p \in ProductIds :
          ReviewUpdate(id, [product_id |-> p])
    \/ /\ HasRoom
       /\ lastId.discount < MaxChildren
       /\ \E p \in ProductIds : DiscountCreate(p, TwentyPercent, 0, 2, TRUE)
    \/ \E id \in ChildIds, p \in ProductIds :
          DiscountUpdate(id, [product_id |-> p])
    \/ /\ HasRoom
       /\ lastId.image < MaxChildren
       /\ \E p \in ProductIds : ImageCreate(p)

IntegritySpec == IntegrityInit /\ [][IntegrityNext]_vars

----------------------------------------------------------------------------
(* Claims on referential integrity (IntegritySpec) *)

\* Every reference of the store leads to a stored row.
ReferentialIntegrity ==
    /\ \A p \in DOMAIN products : products[p].category_id \in DOMAIN categories
    /\ \A i \in DOMAIN images : images[i].product_id \in DOMAIN products
    /\ \A r \in DOMAIN reviews : reviews[r].product_id \in DOMAIN products
    /\ \A d \in discounts : d.product_id \in DOMAIN products
    /\ \A c \in DOMAIN categories :
           categories[c].parent_id \subseteq DOMAIN categories

\* Category c is `root` or lies below it, at most n parent links away.
RECURSIVE Below(_, _, _)
Below(c, root, n) ==
    \/ c = root
    \/ /\ n > 0
       /\ c \in DOMAIN categories
       /\ \E parent \in categories[c].parent_id : Below(parent, root, n - 1)

\* The products of the categories below `root`.
ProductsBelow(root) ==
    {p \in DOMAIN products :
        Below(products[p].category_id, root, Cardinality(DOMAIN categories))}

\* After the step no row of the products `ps` or referring to them is left,
\* and every other product, image, review and discount is as it was.
ProductsGone(ps) ==
    /\ products' = [p \in DOMAIN products \ ps |-> products[p]]
    /\ images' = [i \in {x \in DOMAIN images : images[x].product_id \notin ps}
                    |-> images[i]]
    /\ reviews' = [r \in {x \in DOMAIN reviews :
                            reviews[x].product_id \notin ps} |-> reviews[r]]
    /\ discounts' = {d \in discounts : d.product_id \notin ps}

\* C18: in every reachable state every product's category, every image's,
\* review's and discount's product and every category's parent is stored; a
\* delete of a product removes its images, reviews and discounts, a delete
\* of a category removes the categories below it, their products and those
\* products' images, reviews and discounts.
C18_ReferentialIntegrity ==
    /\ []ReferentialIntegrity
    /\ [][/\ (result'.op = "product_delete" /\ result'.raised = "none") =>
                 /\ ProductsGone({result'.id})
                 /\ UNCHANGED categories
          /\ (result'.op = "category_delete" /\ result'.raised = "none") =>
                 /\ categories' =
                        [c \in {x \in DOMAIN categories :
                                  ~Below(x, result'.id,
                                         Cardinality(DOMAIN categories))}
                           |-> categories[c]]
                 /\ ProductsGone(ProductsBelow(result'.id))]_vars

\* A delete of category 1 that took the category below it, that category's
\* product and the product's review with it, and left the store empty.
C18_Witness ==
    /\ result.op = "category_delete"
    /\ result.raised = "none"
    /\ result.id = 1
    /\ result.deleted.categories = {1, 2}
    /\ result.deleted.products # {}
    /\ result.deleted.reviews # {}
    /\ categories = <<>>
    /\ products = <<>>
    /\ reviews = <<>>

----------------------------------------------------------------------------
(* The storage specification: products and reviews are written through the  *)
(* repositories with valid and invalid field values.                        *)

\* Products of either category and sku, one without sku, one of a negative
\* price, one of a negative stock, and one of a name alone.
StorageProducts ==
    {[name |-> <<"a">>, price |-> Dec(1000, 2), category_id |-> c,
      stock_quantity |-> 10, sku |-> sku] :
        c \in DOMAIN ListingCategories, sku \in CreateSkus}
    \cup {[name |-> <<"a">>, price |-> Dec(1000, 2), category_id |-> 1,
           stock_quantity |-> 10],
          [name |-> <<"a">>, price |-> Dec(0 - 1, 2), category_id |-> 1,
           stock_quantity |-> 10, sku |-> "SKU3"],
          [name |-> <<"a">>, price |-> Dec(1000, 2), category_id |-> 1,
           stock_quantity |-> 0 - 1, sku |-> "SKU3"],
          [name |-> <<"a">>]}

StorageChanges ==
    {[sku |-> sku] : sku \in CreateSkus} \cup {[stock_quantity |-> 0 - 1]}

\* A rating below the range, one in it, one above it.
StorageRatings == {0, 3, 6}

StorageInit ==
    /\ products = <<>>
    /\ discounts = {}
    /\ categories = ListingCategories
    /\ images = <<>>
    /\ reviews = <<>>
    /\ listing = Idle
    /\ calls = <<>>
    /\ lastId = [product |-> 0, discount |-> 0, category |-> 2,
                 review |-> 0, image |-> 0]
    /\ result = [op |-> "init", raised |-> "none"]


\* A review of each rating for each product id.
StorageReviews ==
    {[product_id |-> p, rating |-> rating] :
        p \in ProductIds, rating \in StorageRatings}

StorageNext ==
    \/ \E kwargs \in StorageProducts : ProductCreate(kwargs)
    \/ \E id \in ProductIds, kwargs \in StorageChanges :
          ProductUpdate(id, kwargs)
    \/ /\ lastId.review < MaxChildren
       /\ \E kwargs \in StorageReviews : ReviewCreate(kwargs)

StorageSpec == StorageInit /\ [][StorageNext]_vars

----------------------------------------------------------------------------
(* Claims on the store's constraints (StorageSpec) *)

\* No two stored products have the same sku.
SkuUnique ==
    \A p, q \in DOMAIN products :
        products[p].sku = products[q].sku => p = q

\* The sku a create or update is asked to store is held by a product other
\* than `self`.
SkuTaken(kwargs, self) ==
    \E q \in DOMAIN products \ self :
        products[q].sku = (IF "sku" \in DOMAIN kwargs THEN kwargs.sku ELSE "")

NegativeProduct(kwargs) ==
    /\ {"price", "stock_quantity", "category_id"} \subseteq DOMAIN kwargs
    /\ kwargs.price.c < 0 \/ kwargs.stock_quantity < 0

----------------------------------------------------------------------------
(* Claims on the determinism of the discount selection (DiscountSpec) *)

\* C29: for a fixed store and query time T every call of
\* get_active_discount_for_product(p, T) returns the same discount, so the
\* discounted price is determined by the store and T: in every reachable
\* store each product has, at each instant, exactly one possible answer, two
\* active discounts of one start_date and different percentages included.
C29_SelectionDeterministic ==
    \A p \in DOMAIN products, T \in Times :
        \A r1, r2 \in ActiveDiscountResults(discounts, p, T) : r1 = r2

----------------------------------------------------------------------------
(* Claims on the precedence of the listing's filters (FilterSpec) *)

\* The filters of the listing that starts or ends at once in this step, and
\* the ids it selected.
Started == IF listing'.pc # "idle" THEN listing'.filters ELSE result'.filters

Selected ==
    IF listing'.pc # "idle"
    THEN {listing'.rows[i].id : i \in 1..Len(listing'.rows)}
    ELSE {}

\* C26: the last-applied filter of a listing wins.  With min_price or
\* max_price the listing selects exactly the products of the whole catalog
\* with min <= price <= max, min defaulting to 0 and max to infinity,
\* whatever category and search say; otherwise with search exactly the name
\* or description matches of the whole catalog; otherwise the products of the
\* category, or all of them.
C26_LastFilterWins ==
    [][(listing.pc = "idle"
        /\ (listing'.pc # "idle" \/ result'.op = "list")) =>
           /\ result'.raised = "none"
           /\ Selected =
                  IF Supplied(Started, "price")
                  THEN {id \in DOMAIN products :
                           /\ Started.min_price # {} =>
                                  DecLE(The(Started.min_price),
                                        products[id].price)
                           /\ DecLE(Dec(0, 0), products[id].price)
                           /\ Started.max_price # {} =>
                                  DecLE(products[id].price,
                                        The(Started.max_price))}
                  ELSE IF Supplied(Started, "search")
                  THEN {id \in DOMAIN products :
                           \/ IContains(products[id].name,
                                        The(Started.search))
                           \/ IContains(products[id].description,
                                        The(Started.search))}
                  ELSE IF Supplied(Started, "category")
                  THEN {id \in DOMAIN products :
                           products[id].category_id = The(Started.category)}
                  ELSE DOMAIN products]_vars

----------------------------------------------------------------------------
(* The views: each handler passes the request to its service, which passes *)
(* it to the repository, and answers by the outcome left in `result`.      *)

\* The payload of a request as keyword arguments: the values without their
\* Python type tags.
Keywords(data) == [k \in DOMAIN data |-> data[k].v]

\* CategoryViewSet.retrieve / create / update / destroy
CategoryViewSetRetrieve(pk) == CategoryRepositoryGetById(pk)

CategoryViewSetCreate(data) ==
    IF ValidateCategoryOutcome(data).raised # "none"
    THEN ValidateCategory(data)
    ELSE CategoryCreate(Keywords(data))

CategoryViewSetUpdate(pk, data) ==
    IF ValidateCategoryOutcome(data).raised # "none"
    THEN ValidateCategory(data)
    ELSE CategoryUpdate(pk, Keywords(data))

CategoryViewSetDestroy(pk) == CategoryDelete(pk)

\* ProductViewSet.retrieve / create / update / destroy: request.data goes to
\* the repository as it came.
ProductViewSetRetrieve(pk) == ProductRepositoryGetById(pk)

ProductViewSetCreate(data) == ProductCreate(data)

ProductViewSetUpdate(pk, data) == ProductUpdate(pk, data)

ProductViewSetDestroy(pk) == ProductDelete(pk)

\* Response(data, status=...)
Response(status, data) == [status |-> status, data |-> data]

\* An exception no except clause of the handler catches leaves the view.
Unhandled(exception) == Response("unhandled", [exception |-> exception])

\* ProductViewSet.update_stock: the view checks the value as the service
\* does, then calls update_product_stock with the integer.
ProductViewSetUpdateStock(pk, data) ==
    LET new_stock == DictGet(data, "stock_quantity")
        conv == PyIntConv(new_stock)
        Return(response) ==
            /\ result' = [op |-> "update_stock", id |-> pk, data |-> data,
                          raised |-> IF response.status = "unhandled"
                                     THEN conv.raised ELSE "none",
                          response |-> response]
            /\ UNCHANGED <<products, discounts, categories, images, reviews,
                           listing, calls, lastId>>
    IN  IF new_stock.t = "None"
        THEN Return(Response("400", [error |-> <<"stock_quantity is required">>]))
        ELSE IF conv.raised = "ValueError"
        THEN Return(Response("400",
                             [error |-> <<"stock_quantity must be a number">>]))
        ELSE IF conv.raised # "none"
        THEN Return(Unhandled(conv.raised))
        ELSE IF conv.v < 0
        THEN Return(Response("400",
                             [error |-> <<"stock_quantity cannot be negative">>]))
        ELSE UpdateProductStock(pk, PyInt(conv.v))

\* ProductReviewViewSet.retrieve / create / update / destroy
ProductReviewViewSetRetrieve(pk) == ReviewRepositoryGetById(pk)

ProductReviewViewSetCreate(data) ==
    IF ValidateReviewOutcome(data).raised # "none"
    THEN ValidateReview(data)
    ELSE ReviewCreate(Keywords(data))

ProductReviewViewSetUpdate(pk, data) ==
    IF ValidateReviewOutcome(data).raised # "none"
    THEN ValidateReview(data)
    ELSE ReviewUpdate(pk, Keywords(data))

ProductReviewViewSetDestroy(pk) == ReviewDelete(pk)

\* str(e): a ValidationError prints the list of its messages.
ErrorText(out) ==
    IF out.raised = "ValidationError"
    THEN <<"[">> \o out.message \o <<"]">>
    ELSE out.message

\* try: ... return Response(serializer.data, success)
\* except <exception> as e: return Response({'error': str(e)}, caught[exception])
TryExcept(out, success, caught) ==
    IF out.raised = "none" THEN Response(success, [value |-> out.value])
    ELSE IF out.raised \in DOMAIN caught
    THEN Response(caught[out.raised], [error |-> ErrorText(out)])
    ELSE Unhandled(out.raised)

\* create: except ValidationError
CreateResponse(out) == TryExcept(out, "201", "ValidationError" :> "400")

\* retrieve: except ValueError; update: except ValueError, except
\* ValidationError
UpdateResponse(out) ==
    TryExcept(out, "200",
              ("ValueError" :> "404") @@ ("ValidationError" :> "400"))

\* destroy: 204 for True, 400 for False, except ValueError
DestroyResponse(out) ==
    IF out.raised = "none"
    THEN IF out.value THEN Response("204", EmptyDict)
         ELSE Response("400", [error |-> <<"Failed to delete">>])
    ELSE TryExcept(out, "204", "ValueError" :> "404")

\* update_stock after its own checks: 400 for an error payload of the
\* service, 200 for any other.
UpdateStockResponse(out) ==
    IF out.raised # "none" THEN Unhandled(out.raised)
    ELSE IF "error" \in DOMAIN out.payload THEN Response("400", out.payload)
    ELSE Response("200", out.payload)

\* The response of the view whose service call left `out`.
ResponseTo(out) ==
    CASE out.op \in {"category_get_by_id", "product_get_by_id",
                     "review_get_by_id"} -> UpdateResponse(out)
      [] out.op \in {"category_create", "product_create", "review_create"} ->
            CreateResponse(out)
      [] out.op \in {"category_update", "product_update", "review_update"} ->
            UpdateResponse(out)
      [] out.op \in {"validate_category", "validate_review"} ->
            CreateResponse(out)
      [] out.op \in {"category_delete", "product_delete", "review_delete"} ->
            DestroyResponse(out)
      [] out.op = "update_product_stock" -> UpdateStockResponse(out)
      [] out.op = "update_stock" -> out.response
      [] OTHER -> Response("none", EmptyDict)

----------------------------------------------------------------------------
(* The view specification: requests to the category, product and review    *)
(* endpoints over a catalog of one category and one product.               *)

\* Names too short and long enough.
ViewCategoryPayloads ==
    {EmptyDict, [name |-> PyStr(<<"A">>)], [name |-> PyStr(<<"A", "A">>)]}

\* A product of a new sku, of the stored sku, of a negative price and of a
\* negative stock.
ViewProductPayloads ==
    {[name |-> <<"b">>, price |-> Dec(1000, 2), category_id |-> 1,
      stock_quantity |-> 10, sku |-> sku] : sku \in CreateSkus}
    \cup {[name |-> <<"b">>, price |-> Dec(0 - 1, 2), category_id |-> 1,
           stock_quantity |-> 10, sku |-> "SKU2"],
          [name |-> <<"b">>, price |-> Dec(1000, 2), category_id |-> 1,
           stock_quantity |-> 0 - 1, sku |-> "SKU2"]}

ViewProductChanges ==
    {[sku |-> sku] : sku \in CreateSkus}
    \cup {[price |-> Dec(0 - 1, 2)], [stock_quantity |-> 0 - 1]}

\* Reviews of product 1 with a rating below, inside and above the range or
\* with none, and a comment too short or long enough.
ViewReviewPayloads ==
    {[product_id |-> PyInt(1), rating |-> PyInt(r), comment |-> PyStr(c)] :
        r \in {0, 3, 6}, c \in {Good, GoodItem}}
    \cup {[product_id |-> PyInt(1), comment |-> PyStr(GoodItem)]}

ViewStockPayloads ==
    {EmptyDict} \cup
    {[stock_quantity |-> x] :
        x \in {PyInt(7), PyInt(0 - 1), PyStr(<<"7">>), PyStr(<<"a">>)}}

ViewInit ==
    /\ products = (1 :> FixtureProducts[1])
    /\ discounts = {}
    /\ categories = FixtureCategories
    /\ images = <<>>
    /\ reviews = <<>>
    /\ listing = Idle
    /\ calls = <<>>
    /\ lastId = [product |-> 1, discount |-> 0, category |-> 1,
                 review |-> 0, image |-> 0]
    /\ result = [op |-> "init", raised |-> "none"]

ViewNext ==
    \/ \E pk \in CategoryIds : CategoryViewSetRetrieve(pk)
    \/ /\ HasRoom
       /\ lastId.category < MaxCategories
       /\ \E data \in ViewCategoryPayloads : CategoryViewSetCreate(data)
    \/ \E pk \in CategoryIds, data \in ViewCategoryPayloads :
          CategoryViewSetUpdate(pk, data)
    \/ \E pk \in CategoryIds : CategoryViewSetDestroy(pk)
    \/ \E pk \in ProductIds : ProductViewSetRetrieve(pk)
    \/ /\ HasRoom
       /\ \E data \in ViewProductPayloads : ProductViewSetCreate(data)
    \/ \E pk \in ProductIds, data \in ViewProductChanges :
          ProductViewSetUpdate(pk, data)
    \/ \E pk \in ProductIds : ProductViewSetDestroy(pk)
    \/ \E pk \in ProductIds, data \in ViewStockPayloads :
          ProductViewSetUpdateStock(pk, data)
    \/ \E pk \in ChildIds : ProductReviewViewSetRetrieve(pk)
    \/ /\ HasRoom
       /\ lastId.review < MaxChildren
       /\ \E data \in ViewReviewPayloads : ProductReviewViewSetCreate(data)
    \/ \E pk \in ChildIds, data \in ViewReviewPayloads :
          ProductReviewViewSetUpdate(pk, data)
    \/ \E pk \in ChildIds : ProductReviewViewSetDestroy(pk)

ViewSpec == ViewInit /\ [][ViewNext]_vars

----------------------------------------------------------------------------
(* Claims on the endpoints (ViewSpec) *)

\* The payload of a product create or update breaks a rule: a negative price,
\* a negative stock_quantity, or the sku of a product other than `self`.
BreaksProductRule(kwargs, self) ==
    \/ "price" \in DOMAIN kwargs /\ kwargs.price.c < 0
    \/ "stock_quantity" \in DOMAIN kwargs /\ kwargs.stock_quantity < 0
    \/ "sku" \in DOMAIN kwargs /\ SkuTaken(kwargs, self)

\* The response is an error payload of the given status.
AnswersError(out, status) ==
    /\ ResponseTo(out).status = status
    /\ DOMAIN ResponseTo(out).data = {"error"}

\* C21: POST /products, and PUT /products/{id} on an existing product, with a
\* payload of a negative price, a negative stock_quantity or a duplicate sku
\* answer 400 with {error: message}, not 404 and not an unhandled exception,
\* and store nothing.
C21_ProductValidation400 ==
    [][(\/ /\ result'.op = "product_create"
           /\ BreaksProductRule(result'.kwargs, {})
        \/ /\ result'.op = "product_update"
           /\ result'.id \in DOMAIN products
           /\ BreaksProductRule(result'.kwargs, {result'.id})) =>
           /\ AnswersError(result', "400")
           /\ UNCHANGED <<products, lastId>>]_vars

\* The repositories behind the endpoints.
Endpoints == {repo \in Repositories : repo.entity # "Discount"}

\* C22: retrieve, update and destroy of a category, a product or a review,
\* and update_stock with a valid stock_quantity, addressed to an id the store
\* does not hold, answer 404 with {error: "<Entity> with id <id> not found"}.
C22_AbsentId404 ==
    [][/\ \A repo \in Endpoints :
              (CallsById(repo) /\ result'.id \notin StoredIds(repo)) =>
                  /\ AnswersError(result', "404")
                  /\ ResponseTo(result').data.error =
                         NotFoundMessage(repo.entity, result'.id)
       /\ (/\ result'.op = "update_product_stock"
           /\ result'.product_id \notin DOMAIN products) =>
              /\ AnswersError(result', "404")
              /\ ResponseTo(result').data.error =
                     NotFoundMessage("Product", result'.product_id)]_vars

\* C23: POST and PUT on /categories and /reviews validate first.  A payload
\* that fails validate_category / validate_review is answered 400 with
\* {error: message}, the create or update service call is not made and the
\* store is unchanged; a payload that passes is answered 201 by a create and
\* 200 by an update of an existing entity.
C23_ValidationPrecedesWrites ==
    [][/\ result'.op \in {"validate_category", "validate_review"} =>
              /\ result'.raised = "ValidationError"
              /\ AnswersError(result', "400")
              /\ ~result'.repo_called
              /\ UNCHANGED <<products, discounts, categories, images,
                             reviews, lastId>>
       /\ result'.op = "review_create" =>
              ValidateReviewOutcome(
                  [k \in DOMAIN result'.kwargs \ {"product_id"} |->
                      IF k = "rating" THEN PyInt(result'.kwargs[k])
                      ELSE PyStr(result'.kwargs[k])]) = Passed
       /\ result'.op \in {"category_create", "review_create"} =>
              ResponseTo(result').status = "201"
       /\ (/\ result'.op \in {"category_update", "review_update"}
           /\ result'.id \in (IF result'.op = "category_update"
                              THEN DOMAIN categories ELSE DOMAIN reviews)) =>
              ResponseTo(result').status = "200"]_vars

----------------------------------------------------------------------------
(* The write specification: the repositories' create, update, update_stock  *)
(* and delete with valid and invalid values, over a catalog of one category *)
(* and one product.                                                         *)

\* A product of a new sku, of the stored sku, of a negative price and of a
\* negative stock.
WriteProducts == ViewProductPayloads

\* One field that is valid, one whose save fails, and a valid field followed
\* by one whose save fails.
WriteChanges ==
    {[name |-> <<"b">>], [is_active |-> FALSE], [stock_quantity |-> 0 - 1],
     [name |-> <<"b">>, price |-> Dec(0 - 1, 2)]}

WriteStocks == {0 - 1, 7}

WriteInit == ViewInit

WriteNext ==
    \/ /\ HasRoom
       /\ \E kwargs \in WriteProducts : ProductCreate(kwargs)
    \/ \E id \in ProductIds, kwargs \in WriteChanges :
          ProductUpdate(id, kwargs)
    \/ \E id \in ProductIds, v \in WriteStocks :
          ProductRepositoryUpdateStock(id, v)
    \/ \E id \in ProductIds : ProductDelete(id)
    \/ \E id \in CategoryIds : CategoryUpdate(id, [name |-> <<"b">>])
    \/ /\ HasRoom
       /\ lastId.review < MaxChildren
       /\ \E kwargs \in StorageReviews : ReviewCreate(kwargs)
    \/ \E id \in ChildIds, rating \in StorageRatings :
          ReviewUpdate(id, [rating |-> rating])
    \/ \E id \in ChildIds : ReviewDelete(id)
    \/ /\ HasRoom
       /\ lastId.discount < MaxChildren
       /\ \E p \in ProductIds : DiscountCreate(p, TwentyPercent, 0, 2, TRUE)
    \/ \E id \in ChildIds : DiscountUpdate(id, [is_active |-> FALSE])

WriteSpec == WriteInit /\ [][WriteNext]_vars

----------------------------------------------------------------------------
(* Claims on the repositories' writes (WriteSpec) *)

\* A repository's table before and after a step, as a function of the id.
TableOf(repo) ==
    CASE repo.entity = "Product" -> products
      [] repo.entity = "Category" -> categories
      [] repo.entity = "Review" -> reviews
      [] repo.entity = "Discount" ->
            [i \in {d.id : d \in discounts} |->
                CHOOSE d \in discounts : d.id = i]
TableAfter(repo) ==
    CASE repo.entity = "Product" -> products'
      [] repo.entity = "Category" -> categories'
      [] repo.entity = "Review" -> reviews'
      [] repo.entity = "Discount" ->
            [i \in {d.id : d \in discounts'} |->
                CHOOSE d \in discounts' : d.id = i]

StoredRowsValid ==
    /\ \A id \in DOMAIN products :
           /\ products[id].price.c >= 0
           /\ products[id].stock_quantity >= 0
    /\ \A id \in DOMAIN reviews :
           /\ reviews[id].rating >= MinRating
           /\ reviews[id].rating <= MaxRating

\* C27: after any sequence of repository creates, updates, stock updates and
\* deletes of products and reviews, every stored product has price >= 0 and
\* stock_quantity >= 0 and every stored review has 1 <= rating <= 5.
C27_StoredRowsValid == StoredRowsValid

\* A stock update to a negative value was asked of a stored product, with a
\* review stored as well.
C27_Witness ==
    /\ result.op = "product_update_stock"
    /\ result.new_stock < 0
    /\ result.id \in DOMAIN products
    /\ reviews # <<>>
    /\ StoredRowsValid

\* The step is a repository write that raised.
WriteFailed ==
    /\ result'.op \in {"product_create", "product_update",
                       "product_update_stock", "review_create",
                       "review_update", "category_update", "discount_create",
                       "discount_update"}
    /\ result'.raised # "none"

\* C30: a repository create, update or update_stock that raises leaves the
\* store as it was before the call: no field of the entity has changed and
\* no row has been added.
C30_FailedWriteAtomic ==
    [][WriteFailed =>
           UNCHANGED <<products, discounts, categories, images, reviews,
                       lastId>>]_vars

\* An update of two fields whose save failed on the second: the first, which
\* was valid, is not in the store either.
C30_Witness ==
    /\ result.op = "product_update"
    /\ result.raised = "ValueError"
    /\ result.kwargs = [name |-> <<"b">>, price |-> Dec(0 - 1, 2)]
    /\ result.id \in DOMAIN products
    /\ products[result.id].name = <<"a">>
    /\ products[result.id].price.c >= 0

----------------------------------------------------------------------------
(* Concurrent calls of ProductRepository.update and update_stock.  Each     *)
(* call is two steps, the get that loads the row and, after the             *)
(* assignments to the loaded object, the save that writes it; the store     *)
(* executes each statement atomically.  calls[w] is the call of worker w.   *)

Workers == {1, 2}

NoCall == [pc |-> "idle"]

\* models.py 41-43 after clean: Model.save() of an object that has a primary
\* key writes every field of the row (an UPDATE of all columns, an INSERT
\* when no row has the key).
SaveRow(ps, p) ==
    [i \in DOMAIN ps \cup {p.id} |-> IF i = p.id THEN p ELSE ps[i]]

\* A save with an optimistic-concurrency check: it refuses to write over a
\* row that has changed since the call loaded it.
SaveOutcomeIfUnchanged(call, ps, cats) ==
    IF call.id \in DOMAIN ps /\ ps[call.id] # call.read
    THEN [raised |-> "ValueError",
          message |-> <<"Error updating product", call.id, "stale">>,
          products |-> ps]
    ELSE LET p == call.product
             e == ProductSaveError(p, {o \in Rows(ps) : o.id # p.id}, cats)
         IN  IF e = <<>>
             THEN [raised |-> "none", message |-> <<>>,
                   products |-> SaveRow(ps, p)]
             ELSE [raised |-> "ValueError",
                   message |-> <<"Error updating product", p.id>> \o e,
                   products |-> ps]

\* product.save() of the object a call holds: None, or the exception that
\* the repository turns into ValueError.
SaveOutcome(call, ps, cats) ==
    LET p == call.product
        e == ProductSaveError(p, {o \in Rows(ps) : o.id # p.id}, cats)
    IN  IF e = <<>>
        THEN [raised |-> "none", message |-> <<>>, products |-> SaveRow(ps, p)]
        ELSE [raised |-> "ValueError",
              message |-> <<"Error updating product", p.id>> \o e,
              products |-> ps]

\* The first statements of a call: Product.objects.get(id=product_id), then
\* the assignments to the loaded object.  read is the row as it was loaded.
Get(w, op, product_id, args, assigned) ==
    /\ calls[w].pc = "idle"
    /\ IF product_id \notin DOMAIN products
       THEN /\ calls' = [calls EXCEPT ![w] =
                            [pc |-> "done", op |-> op, id |-> product_id,
                             args |-> args, raised |-> "ValueError",
                             stale |-> FALSE]]
            /\ result' = [op |-> op, worker |-> w, id |-> product_id,
                          args |-> args, raised |-> "ValueError",
                          message |-> NotFoundMessage("Product", product_id)]
       ELSE /\ calls' = [calls EXCEPT ![w] =
                            [pc |-> "save", op |-> op, id |-> product_id,
                             args |-> args, read |-> products[product_id],
                             product |-> assigned]]
            /\ UNCHANGED result
    /\ UNCHANGED <<products, discounts, categories, images, reviews, listing,
                   lastId>>

\* repositories.py 242-243
UpdateStockGet(w, product_id, new_stock) ==
    Get(w, "product_update_stock", product_id, new_stock,
        IF product_id \in DOMAIN products
        THEN [products[product_id] EXCEPT !.stock_quantity = new_stock]
        ELSE NoCall)

\* repositories.py 194-196
UpdateGet(w, product_id, kwargs) ==
    Get(w, "product_update", product_id, kwargs,
        IF product_id \in DOMAIN products
        THEN SetAttrs(products[product_id], kwargs)
        ELSE NoCall)

\* repositories.py 197-202 and 244-249: product.save() and the return or the
\* ValueError of the call.
Save(w) ==
    /\ calls[w].pc = "save"
    /\ LET call == calls[w]
           out == SaveOutcome(call, products, categories)
       IN  /\ products' = out.products
           /\ calls' = [calls EXCEPT ![w] =
                           [pc |-> "done", op |-> call.op, id |-> call.id,
                            args |-> call.args, raised |-> out.raised,
                            stale |-> products[call.id] # call.read]]
           /\ result' = [op |-> call.op, worker |-> w, id |-> call.id,
                         args |-> call.args, raised |-> out.raised,
                         message |-> out.message]
    /\ UNCHANGED <<discounts, categories, images, reviews, listing, lastId>>

\* The values of concurrent stock updates: two valid ones and a negative one.
ConcurrentStocks == {3, 7, 0 - 1}

\* The fields of a concurrent update, none of them stock_quantity.
ConcurrentChanges == {[name |-> <<"b">>], [is_active |-> FALSE]}

ConcurrentInit ==
    /\ products = (1 :> FixtureProducts[1])
    /\ discounts = {}
    /\ categories = FixtureCategories
    /\ images = <<>>
    /\ reviews = <<>>
    /\ listing = Idle
    /\ lastId = [product |-> 1, discount |-> 0, category |-> 1,
                 review |-> 0, image |-> 0]
    /\ result = [op |-> "init", raised |-> "none"]
    /\ calls = [w \in Workers |-> NoCall]

ConcurrentNext ==
    \/ \E w \in Workers, id \in ProductIds, v \in ConcurrentStocks :
          UpdateStockGet(w, id, v)
    \/ \E w \in Workers, id \in ProductIds, kwargs \in ConcurrentChanges :
          UpdateGet(w, id, kwargs)
    \/ \E w \in Workers : Save(w)

ConcurrentSpec == ConcurrentInit /\ [][ConcurrentNext]_vars

----------------------------------------------------------------------------
(* Claims on concurrent calls (ConcurrentSpec) *)

\* The call is an update_stock with a valid value.
StockCall(call) ==
    /\ call.op = "product_update_stock"
    /\ call.args >= 0

\* Both calls have returned normally, on the same product.
BothSucceeded ==
    /\ \A w \in Workers : calls[w].pc = "done" /\ calls[w].raised = "none"
    /\ calls[1].id = calls[2].id

\* One of the two calls loaded the product before the other one saved it and
\* saved it afterwards.
RanConcurrently == \E w \in Workers : calls[w].stale

\* C24: two concurrent stock updates of an existing product with valid values
\* never block or fail because of each other: the save of each is enabled
\* whatever the other has done, it succeeds, and it stores its own value, so
\* that once both have returned the stock is the value of the save that
\* executed last.
C24_LastWriterWins ==
    /\ [](\A w \in Workers : calls[w].pc = "save" => ENABLED Save(w))
    /\ [](BothSucceeded /\ StockCall(calls[1]) /\ StockCall(calls[2]) =>
             /\ result.args \in {calls[1].args, calls[2].args}
             /\ products[result.id].stock_quantity = result.args)
    /\ [][\A w \in Workers :
              (calls[w].pc = "save" /\ StockCall(calls[w])
                  /\ calls'[w].pc = "done") =>
                  /\ calls'[w].raised = "none"
                  /\ result'.worker = w
                  /\ products'[calls[w].id].stock_quantity = calls[w].args]_vars

\* Both stock updates have returned normally with different values, and the
\* one that saved last had loaded the product before the other one saved.
C24_Witness ==
    /\ BothSucceeded
    /\ StockCall(calls[1])
    /\ StockCall(calls[2])
    /\ calls[1].args # calls[2].args
    /\ RanConcurrently
    /\ calls[result.worker].stale
    /\ products[result.id].stock_quantity = result.args

\* C28: when an update of fields other than stock_quantity and an
\* update_stock of the same product run concurrently and both succeed, the
\* product afterwards holds the fields written by the update and the stock
\* written by update_stock.
C28_NoLostUpdate ==
    \A u, s \in Workers :
        (/\ BothSucceeded
         /\ RanConcurrently
         /\ calls[u].op = "product_update"
         /\ StockCall(calls[s])) =>
            /\ \A f \in DOMAIN calls[u].args :
                   products[calls[u].id][f] = calls[u].args[f]
            /\ products[calls[s].id].stock_quantity = calls[s].args

====
